---------------------------- MODULE Spec2Model ----------------------------
(***************************************************************************)
(* A model of the user-data layer of ubeswap-info (src/contexts/User.tsx   *)
(* and the helpers of src/utils that it is bundled with):                  *)
(*                                                                         *)
(*   - splitQuery, the paginated query executor          (SpecSplitQuery)  *)
(*   - the fetchData computation of useUserLiquidityChart (SpecLiquidity)  *)
(*   - the reducer-backed per-account cache, the hooks that read it and    *)
(*     the fetches those hooks start                      (Spec)           *)
(*                                                                         *)
(* Each part has its own variables; a specification of one part leaves the *)
(* variables of the other parts at their initial value.                    *)
(***************************************************************************)
EXTENDS Integers, Sequences, FiniteSets, TLC

VARIABLES
  \* ---- splitQuery (one call) ----
  sqList,        \* the `list` argument
  sqSkipCount,   \* the `skipCount` argument
  sqPc,          \* "loop" (top of the while), "await" (query in flight), "done", "failed"
  sqSkip,        \* the local `skip`
  sqSliced,      \* the slice sent with the query in flight
  sqRequests,    \* every slice window <<skip, end>> sent so far, in order
  sqFetched,     \* the local `fetchedData`: its keys in insertion order
  sqAllFull      \* every page so far held one entry per requested item

sqVars == <<sqList, sqSkipCount, sqPc, sqSkip, sqSliced, sqRequests, sqFetched, sqAllFull>>

VARIABLES
  \* ---- useUserLiquidityChart (one consumer, one run of fetchData) ----
  clock,            \* dayjs.utc().unix(), the wall clock
  lcHistory,        \* `history`, the account's snapshots as useUserSnapshots returns them
  lcStart,          \* the state `startDateTimestamp`
  lcPc,             \* "idle", "await" (day-data query in flight), "done", "uncaught"
  lcDayTimestamps,  \* the local `dayTimestamps`
  lcPairs,          \* the local `pairs`, sent with the query
  lcPairDayDatas,   \* `pairDayDatas`, the query's answer
  lcFormatted,      \* the state `formattedHistory` (<<>> while it is undefined)
  lcOwnLog,         \* `ownershipPerPair` at the end of each iteration of the day loop
  lcUsedLog         \* `relavantDayDatas` of each iteration of the day loop

lcVars == <<clock, lcHistory, lcStart, lcPc, lcDayTimestamps, lcPairs, lcPairDayDatas,
            lcFormatted, lcOwnLog, lcUsedLog>>

VARIABLES
  \* ---- the cache of Provider and what reads and writes it ----
  state,           \* the reducer's state: account -> key -> value
  cons,            \* the mounted consumers: hook called, props, last dependency lists
  fetches          \* every fetchData call started so far, in order of start

ucVars == <<state, cons, fetches>>

VARIABLES
  \* ---- getBlocksFromTimestamps (one call, on top of one call of splitQuery) ----
  bkPc,          \* "idle", "called", "await" (splitQuery under way), "done", "failed"
  bkMissing,     \* the timestamps the backend has no block for within 600 seconds
  bkBlocks       \* the returned `blocks`

bkVars == <<bkPc, bkMissing, bkBlocks>>

VARIABLES
  \* ---- getShareValueOverTime (one call) ----
  svPc,          \* "idle", "blocks" (awaiting getBlocksFromTimestamps), "query", "done", "failed"
  svRows,        \* the rows of result.data, in the order of `for (const row in result?.data)`
  svValues       \* the returned `values`

svVars == <<svPc, svRows, svValues>>

VARIABLES
  \* ---- the first effect of useUserLiquidityChart ----
  activeWindow,  \* useTimeframe()[0]
  twLast         \* the last run of the effect, as a one-element sequence: its
                 \* dependencies and its `startTime` (<<>> before the first render)

twVars == <<activeWindow, twLast>>

VARIABLES
  \* ---- getPercentChange and get2DayPercentChange (one call) ----
  fnCall,        \* the function called and its arguments (<<>> while none is)
  fnResult       \* what the call returned (<<>> until it returns)

fnVars == <<fnCall, fnResult>>

VARIABLES
  \* ---- the reducer driven by dispatches ----
  rdDispatched   \* the actions dispatched so far, in order

rdVars == <<rdDispatched>>

VARIABLES
  \* ---- the second effect of useUserLiquidityChart, run again and again ----
  rcRuns         \* every call of fetchData so far, in order of start, with the
                 \* `history` and `startDateTimestamp` of its render

rcVars == <<rcRuns>>

vars == <<sqVars, lcVars, ucVars, bkVars, svVars, twVars, fnVars, rdVars, rcVars>>

\* what a step of one part leaves alone
notSq == <<lcVars, ucVars, bkVars, svVars, twVars, fnVars, rdVars, rcVars>>
notLc == <<sqVars, ucVars, bkVars, svVars, twVars, fnVars, rdVars, rcVars>>
notUc == <<sqVars, lcVars, bkVars, svVars, twVars, fnVars, rdVars, rcVars>>
notBk == <<lcVars, ucVars, svVars, twVars, fnVars, rdVars, rcVars>>
notSv == <<sqVars, lcVars, ucVars, bkVars, twVars, fnVars, rdVars, rcVars>>
notTw == <<sqVars, ucVars, bkVars, svVars, fnVars, rdVars, rcVars>>

(***************************************************************************)
(* Bounds of the model.                                                    *)
(***************************************************************************)
MaxListLen == 3
MaxSkipCount == 3
MaxRequests == 5
MaxSnaps == 2
MaxDayDatas == 2
MaxDay == 2
MaxFetches == 2
MaxPages == 1
MaxPrice == 2
MaxRows == 3

(***************************************************************************)
(* Helpers on sequences.                                                   *)
(***************************************************************************)
Range(s) == {s[i] : i \in 1..Len(s)}

SeqsUpTo(S, n) == UNION {[1..k -> S] : k \in 0..n}

Min2(a, b) == IF a < b THEN a ELSE b

\* ceil(n / p) for p >= 1
CeilDiv(n, p) == (n + p - 1) \div p

\* list.slice(from, to) with 0-based, end-exclusive indices
Slice(list, from, to) ==
  LET lo == Min2(from, Len(list))
      hi == Min2(to, Len(list))
  IN  IF hi <= lo THEN <<>> ELSE [i \in 1..(hi - lo) |-> list[lo + i]]

\* the subsequence of s at the positions in idx
RECURSIVE Pick(_, _, _)
Pick(s, idx, i) ==
  IF i > Len(s) THEN <<>>
  ELSE IF i \in idx THEN <<s[i]>> \o Pick(s, idx, i + 1)
  ELSE Pick(s, idx, i + 1)

(***************************************************************************)
(* splitQuery(query, localClient, vars, list, skipCount)                   *)
(***************************************************************************)
\* the timestamps a list may hold
Timestamps == {1000, 2000, 3000}

\* The keys of an object built from the items of a slice: one key per distinct
\* item (`t${timestamp}`), in the order of first appearance.
RECURSIVE ObjectKeys(_)
ObjectKeys(s) ==
  IF s = <<>> THEN <<>>
  ELSE LET rest == ObjectKeys(SubSeq(s, 1, Len(s) - 1))
           last == s[Len(s)]
       IN  IF last \in Range(rest) THEN rest ELSE Append(rest, last)

\* { ...fetchedData, ...result.data }: keys already present keep their place,
\* new keys are added at the end in the order of result.data
SpreadMerge(fetched, data) == ObjectKeys(fetched \o data)

\* every slice running to the end of the list
MutSliceEndWholeList(list, skip, skipCount) == Len(list)

\* let end = list.length; if (skip + skipCount < list.length) end = skip + skipCount
SliceEnd(list, skip, skipCount) ==
  IF skip + skipCount < Len(list) THEN skip + skipCount ELSE Len(list)

\* Object.keys(result.data).length < skipCount || skip + skipCount > list.length
AllFound(list, skip, skipCount, data) ==
  Len(data) < skipCount \/ skip + skipCount > Len(list)

\* no call of splitQuery is under way
SqIdle ==
  /\ sqList = <<>>
  /\ sqSkipCount = 0
  /\ sqPc = "idle"
  /\ sqSkip = 0
  /\ sqSliced = <<>>
  /\ sqRequests = <<>>
  /\ sqFetched = <<>>
  /\ sqAllFull = TRUE

\* no call of getBlocksFromTimestamps is under way
BkIdle ==
  /\ bkPc = "idle"
  /\ bkMissing = {}
  /\ bkBlocks = <<>>

\* no call of getShareValueOverTime is under way
SvIdle ==
  /\ svPc = "idle"
  /\ svRows = <<>>
  /\ svValues = <<>>

\* no timeframe is looked at
TwIdle == activeWindow = "" /\ twLast = <<>>

\* no helper is called, nothing is dispatched by hand, no fetchData is followed
FnIdle == fnCall = <<>> /\ fnResult = <<>>

RdIdle == rdDispatched = <<>>

RcIdle == rcRuns = <<>>

\* no consumer of useUserLiquidityChart is mounted
LcIdle ==
  /\ clock = 0
  /\ lcHistory = <<>>
  /\ lcStart = 0
  /\ lcPc = "unmounted"
  /\ lcDayTimestamps = <<>>
  /\ lcPairs = <<>>
  /\ lcPairDayDatas = <<>>
  /\ lcFormatted = <<>>
  /\ lcOwnLog = <<>>
  /\ lcUsedLog = <<>>

SqInit ==
  /\ sqList \in SeqsUpTo(Timestamps, MaxListLen)
  /\ sqSkipCount \in 0..MaxSkipCount
  /\ sqPc = "loop"
  /\ sqSkip = 0
  /\ sqSliced = <<>>
  /\ sqRequests = <<>>
  /\ sqFetched = <<>>
  /\ sqAllFull = TRUE

\* top of the while loop up to the await of localClient.query (of the requests
\* only the first MaxRequests are kept on record)
SplitQueryRequest ==
  /\ sqPc = "loop"
  /\ LET end == SliceEnd(sqList, sqSkip, sqSkipCount)
     IN  /\ sqSliced' = Slice(sqList, sqSkip, end)
         /\ sqRequests' = IF Len(sqRequests) < MaxRequests
                          THEN Append(sqRequests, <<sqSkip, end>>)
                          ELSE sqRequests
  /\ sqPc' = "await"
  /\ UNCHANGED <<sqList, sqSkipCount, sqSkip, sqFetched, sqAllFull>>
  /\ UNCHANGED notSq

\* the query resolves with result.data holding the keys at positions idx of the
\* requested ones; the rest of the loop body runs
SplitQueryResponse ==
  /\ sqPc = "await"
  /\ \E idx \in SUBSET (1..Len(ObjectKeys(sqSliced))) :
       LET data == Pick(ObjectKeys(sqSliced), idx, 1)
       IN  /\ sqFetched' = SpreadMerge(sqFetched, data)
           /\ sqAllFull' = (sqAllFull /\ Len(data) = Len(sqSliced))
           /\ IF AllFound(sqList, sqSkip, sqSkipCount, data)
              THEN sqPc' = "done" /\ sqSkip' = sqSkip
              ELSE sqPc' = "loop" /\ sqSkip' = sqSkip + sqSkipCount
  /\ UNCHANGED <<sqList, sqSkipCount, sqSliced, sqRequests>>
  /\ UNCHANGED notSq

\* the query rejects: splitQuery has no try/catch, the rejection leaves the call
SplitQueryError ==
  /\ sqPc = "await"
  /\ sqPc' = "failed"
  /\ UNCHANGED <<sqList, sqSkipCount, sqSkip, sqSliced, sqRequests, sqFetched, sqAllFull>>
  /\ UNCHANGED notSq

SqNext == SplitQueryRequest \/ SplitQueryResponse \/ SplitQueryError

(***************************************************************************)
(* Numbers.  parseFloat values and their quotients, products and sums are  *)
(* kept exact as fractions <<n, d>> in lowest terms with n >= 0; d = 0 is   *)
(* the result of a division by zero: <<1, 0>> is Infinity, <<0, 0>> is NaN.*)
(***************************************************************************)
RECURSIVE GCD(_, _)
GCD(a, b) == IF b = 0 THEN a ELSE GCD(b, a % b)

Norm(n, d) ==
  IF d = 0 THEN <<IF n = 0 THEN 0 ELSE 1, 0>>
  ELSE IF n = 0 THEN <<0, 1>>
  ELSE <<n \div GCD(n, d), d \div GCD(n, d)>>

\* parseFloat of the decimal string of a whole number
ParseFloat(i) == <<i, 1>>

FDiv(x, y) == Norm(x[1] * y[2], x[2] * y[1])

FMul(x, y) == Norm(x[1] * y[1], x[2] * y[2])

FAdd(x, y) ==
  IF x[2] = 0 /\ y[2] = 0
  THEN (IF x[1] = 0 \/ y[1] = 0 THEN <<0, 0>> ELSE <<1, 0>>)
  ELSE Norm(x[1] * y[2] + y[1] * x[2], x[2] * y[2])

(***************************************************************************)
(* useUserLiquidityChart(account): the fetchData of its second effect      *)
(***************************************************************************)
DAY == 86400

Pools == {"A", "B"}

\* the timestamps of snapshots: inside day 0, at the very start of day 1 and
\* inside day 1
SnapshotTimes == {100, 200, DAY, DAY + 100}

\* liquidityTokenBalance of the snapshot at position i of the history: every
\* snapshot of a history has a balance of its own
BalanceAt(i) == 5 + 5 * i

\* the histories useUserSnapshots may return: every order of every choice of
\* times and pools
Histories ==
  {[i \in 1..k |->
      [timestamp |-> ts[i], pair |-> ps[i], liquidityTokenBalance |-> BalanceAt(i)]] :
     <<k, ts, ps>> \in UNION {{k} \X [1..k -> SnapshotTimes] \X [1..k -> Pools] : k \in 0..MaxSnaps}}

\* the window starts the first effect may have stored: inside day 0 and inside day 1
StartTimes == {50, DAY + 50}

\* the daily aggregate records the backend holds
DayDataRecords ==
  { [date |-> 0,   pairAddress |-> "A", totalSupply |-> 100, reserveUSD |-> 1000],
    [date |-> DAY, pairAddress |-> "A", totalSupply |-> 100, reserveUSD |-> 2000],
    [date |-> 0,   pairAddress |-> "B", totalSupply |-> 50,  reserveUSD |-> 2000],
    [date |-> DAY, pairAddress |-> "B", totalSupply |-> 200, reserveUSD |-> 500] }

\* `mostRecent` when the pair has no record at all (dayDatasForThisPair[0] is undefined)
NoRecord == [date |-> -1, pairAddress |-> "", totalSupply |-> 0, reserveUSD |-> 0]

\* history.slice().sort((a, b) => a.timestamp > b.timestamp ? 1 : -1)
RECURSIVE SortedPositions(_)
SortedPositions(h) ==
  IF h = <<>> THEN <<>>
  ELSE LET rest == SortedPositions(Tail(h))
           x == Head(h)
           below == SelectSeq(rest, LAMBDA y : ~(y.timestamp > x.timestamp))
           above == SelectSeq(rest, LAMBDA y : y.timestamp > x.timestamp)
       IN  below \o <<x>> \o above

\* let dayIndex = startDateTimestamp ? Math.floor(startDateTimestamp / 86400) : 0
\* if ((sortedPositions[0].timestamp ?? 0) > dayIndex)
\*   dayIndex = parseInt((parseInt(sortedPositions[0].timestamp.toString()) / 86400).toString())
FirstDayIndex(history, start) ==
  LET dayIndex == IF start # 0 THEN start \div DAY ELSE 0
      first == SortedPositions(history)[1].timestamp
  IN  IF first > dayIndex THEN first \div DAY ELSE dayIndex

\* const currentDayIndex = parseInt((dayjs.utc().unix() / 86400).toString())
CurrentDayIndex(now) == now \div DAY

\* the day loop running up to and including the current day
MutDayTimestampsInclusive(dayIndex, currentDayIndex) ==
  IF dayIndex <= currentDayIndex
  THEN [i \in 1..(currentDayIndex - dayIndex + 1) |-> (dayIndex + i - 1) * DAY]
  ELSE <<>>

\* while (dayIndex < currentDayIndex) { dayTimestamps.push(dayIndex * 86400); dayIndex = dayIndex + 1 }
DayTimestamps(dayIndex, currentDayIndex) ==
  IF dayIndex < currentDayIndex
  THEN [i \in 1..(currentDayIndex - dayIndex) |-> (dayIndex + i - 1) * DAY]
  ELSE <<>>

\* history.reduce((pairList, position) => [...pairList, position.pair.id], [])
PairList(history) == [i \in 1..Len(history) |-> history[i].pair]

\* history.filter((snapshot) => snapshot.timestamp < timestampCeiling && snapshot.timestamp > dayTimestamp)
RelevantPositions(history, dayTimestamp) ==
  SelectSeq(history, LAMBDA s : s.timestamp < dayTimestamp + DAY /\ s.timestamp > dayTimestamp)

\* ownershipPerPair is kept as the sequence of its entries in the order their
\* keys were added (the order of Object.keys)
HasPair(own, pair) == \E i \in 1..Len(own) : own[i].pair = pair

EntryOf(own, pair) == own[CHOOSE i \in 1..Len(own) : own[i].pair = pair]

\* ownershipPerPair[pair] = { lpTokenBalance, timestamp }
SetEntry(own, position) ==
  LET e == [pair |-> position.pair, lpTokenBalance |-> position.liquidityTokenBalance,
            timestamp |-> position.timestamp]
  IN  IF HasPair(own, position.pair)
      THEN [i \in 1..Len(own) |-> IF own[i].pair = position.pair THEN e ELSE own[i]]
      ELSE Append(own, e)

\* the update without the comparison of timestamps: the last snapshot in the
\* input wins
MutUpdateOwnershipOverwrite(own, position) == SetEntry(own, position)

\* the body of `for (const index in relevantPositions)`
UpdateOwnership(own, position) ==
  LET own1 == IF ~HasPair(own, position.pair) THEN SetEntry(own, position) ELSE own
  IN  IF EntryOf(own1, position.pair).timestamp < position.timestamp
      THEN SetEntry(own1, position)
      ELSE own1

RECURSIVE ApplyPositions(_, _)
ApplyPositions(own, relevant) ==
  IF relevant = <<>> THEN own
  ELSE ApplyPositions(UpdateOwnership(own, Head(relevant)), Tail(relevant))

\* pairDayDatas.filter((dayData) => dayData.pairAddress === pairAddress)
DayDatasForThisPair(pairDayDatas, pairAddress) ==
  SelectSeq(pairDayDatas, LAMBDA d : d.pairAddress = pairAddress)

\* the scan without the test that the record is dated before the bucket
RECURSIVE MutScanNoDateCheck(_, _, _)
MutScanNoDateCheck(mostRecent, dayDatas, dayTimestamp) ==
  IF dayDatas = <<>> THEN mostRecent
  ELSE MutScanNoDateCheck(
         IF Head(dayDatas).date > mostRecent.date THEN Head(dayDatas) ELSE mostRecent,
         Tail(dayDatas), dayTimestamp)

\* let mostRecent = dayDatasForThisPair[0]; for ... if (dayData.date < dayTimestamp
\*   && dayData.date > mostRecent.date) mostRecent = dayData
RECURSIVE ScanMostRecent(_, _, _)
ScanMostRecent(mostRecent, dayDatas, dayTimestamp) ==
  IF dayDatas = <<>> THEN mostRecent
  ELSE LET dayData == Head(dayDatas)
       IN  ScanMostRecent(
             IF dayData.date < dayTimestamp /\ dayData.date > mostRecent.date
             THEN dayData ELSE mostRecent,
             Tail(dayDatas), dayTimestamp)

MostRecent(dayDatas, dayTimestamp) ==
  IF dayDatas = <<>> THEN NoRecord
  ELSE ScanMostRecent(dayDatas[1], dayDatas, dayTimestamp)

\* Object.keys(ownershipPerPair).map((pairAddress) => ... mostRecent)
RelevantDayDatas(own, pairDayDatas, dayTimestamp) ==
  [i \in 1..Len(own) |->
     MostRecent(DayDatasForThisPair(pairDayDatas, own[i].pair), dayTimestamp)]

\* the quotient taken the wrong way round
MutPairUSDInverted(lpTokenBalance, dayData) ==
  FMul(FDiv(ParseFloat(dayData.totalSupply), ParseFloat(lpTokenBalance)),
       ParseFloat(dayData.reserveUSD))

\* (parseFloat(lpTokenBalance) / parseFloat(dayData.totalSupply)) * parseFloat(dayData.reserveUSD)
PairUSD(lpTokenBalance, dayData) ==
  FMul(FDiv(ParseFloat(lpTokenBalance), ParseFloat(dayData.totalSupply)),
       ParseFloat(dayData.reserveUSD))

\* relavantDayDatas.reduce((totalUSD, dayData) => ..., 0)
RECURSIVE DailyUSD(_, _, _)
DailyUSD(totalUSD, dayDatas, own) ==
  IF dayDatas = <<>> THEN totalUSD
  ELSE LET dayData == Head(dayDatas)
       IN  DailyUSD(
             IF dayData # NoRecord
             THEN FAdd(totalUSD,
                       IF HasPair(own, dayData.pairAddress)
                       THEN PairUSD(EntryOf(own, dayData.pairAddress).lpTokenBalance, dayData)
                       ELSE ParseFloat(0))
             ELSE totalUSD,
             Tail(dayDatas), own)

\* `for (const index in dayTimestamps)`: one record per iteration, from iteration k
\* on, with `own` the ownershipPerPair the iteration starts with
RECURSIVE DayLoop(_, _, _, _, _)
DayLoop(history, pairDayDatas, dayTimestamps, k, own) ==
  IF k > Len(dayTimestamps) THEN <<>>
  ELSE LET dayTimestamp == dayTimestamps[k]
           own2 == ApplyPositions(own, RelevantPositions(history, dayTimestamp))
           used == RelevantDayDatas(own2, pairDayDatas, dayTimestamp)
       IN  <<[date |-> dayTimestamp,
              valueUSD |-> DailyUSD(ParseFloat(0), used, own2),
              own |-> own2,
              used |-> used]>>
           \o DayLoop(history, pairDayDatas, dayTimestamps, k + 1, own2)

LcInit ==
  /\ clock \in {d * DAY + 5 : d \in 1..MaxDay}
  /\ lcHistory \in {h \in Histories : \A i \in 1..Len(h) : h[i].timestamp <= clock}
  /\ lcStart \in {s \in StartTimes : s < clock}
  /\ lcPc = "idle"
  /\ lcDayTimestamps = <<>>
  /\ lcPairs = <<>>
  /\ lcPairDayDatas = <<>>
  /\ lcFormatted = <<>>
  /\ lcOwnLog = <<>>
  /\ lcUsedLog = <<>>

\* the effect runs fetchData up to the await of client.query
LcFetchStart ==
  /\ lcPc = "idle"
  /\ lcHistory # <<>> /\ lcStart # 0
  /\ lcDayTimestamps' =
       DayTimestamps(FirstDayIndex(lcHistory, lcStart), CurrentDayIndex(clock))
  /\ lcPairs' = PairList(lcHistory)
  /\ lcPc' = "await"
  /\ UNCHANGED <<clock, lcHistory, lcStart, lcPairDayDatas, lcFormatted, lcOwnLog, lcUsedLog>>
  /\ UNCHANGED notLc

\* the day-data query resolves; the day loop runs and setFormattedHistory is called
LcFetchResolve ==
  /\ lcPc = "await"
  /\ \E pairDayDatas \in SeqsUpTo(DayDataRecords, MaxDayDatas) :
       LET loop == DayLoop(lcHistory, pairDayDatas, lcDayTimestamps, 1, <<>>)
       IN  /\ lcPairDayDatas' = pairDayDatas
           /\ lcFormatted' =
                [k \in 1..Len(loop) |-> [date |-> loop[k].date, valueUSD |-> loop[k].valueUSD]]
           /\ lcOwnLog' = [k \in 1..Len(loop) |-> loop[k].own]
           /\ lcUsedLog' = [k \in 1..Len(loop) |-> loop[k].used]
  /\ lcPc' = "done"
  /\ UNCHANGED <<clock, lcHistory, lcStart, lcDayTimestamps, lcPairs>>
  /\ UNCHANGED notLc

\* the day-data query rejects: fetchData has no try/catch, its promise rejects
LcFetchReject ==
  /\ lcPc = "await"
  /\ lcPc' = "uncaught"
  /\ UNCHANGED <<clock, lcHistory, lcStart, lcDayTimestamps, lcPairs, lcPairDayDatas,
                 lcFormatted, lcOwnLog, lcUsedLog>>
  /\ UNCHANGED notLc

\* a day passes
LcTick ==
  /\ lcPc # "unmounted"
  /\ clock \div DAY < MaxDay
  /\ clock' = clock + DAY
  /\ UNCHANGED <<lcHistory, lcStart, lcPc, lcDayTimestamps, lcPairs, lcPairDayDatas,
                 lcFormatted, lcOwnLog, lcUsedLog>>
  /\ UNCHANGED notLc

LcNext == LcFetchStart \/ LcFetchResolve \/ LcFetchReject \/ LcTick

(***************************************************************************)
(* The per-account cache: reducer, Provider callbacks, hooks and fetches   *)
(***************************************************************************)
Accounts == {"a1", "a2"}

\* `account` while it is undefined
NoAccount == ""

\* the components that may call the hooks
Consumers == {"c1", "c2"}

\* what a consumer calls: useUserTransactions, useUserSnapshots,
\* useUserPositions or useUserPositionChart
HookKinds == {"transactions", "snapshots", "positions", "positionChart"}

\* what the hooks of the other contexts return in one render: useCeloPrice()[0]
\* (0 while undefined), useStartTimestamp() (0 while undefined) and whether
\* usePairData(pairAddress) is an object with keys
RenderInputs == [price : 0..MaxPrice, start : {0, 1}, pairData : BOOLEAN]

\* state?.[account] of an account nothing was written for: every key undefined.
\* A value is 0 while undefined and otherwise the number of the fetch whose
\* payload it is (two payloads are never the same object).
EmptyEntry ==
  [TRANSACTIONS_KEY |-> 0, POSITIONS_KEY |-> 0, MINING_POSITIONS_KEY |-> 0,
   USER_SNAPSHOTS |-> 0, USER_PAIR_RETURNS_KEY |-> [p \in Pools |-> 0]]

\* const INITIAL_STATE = {}
INITIAL_STATE == [a \in Accounts |-> EmptyEntry]

\* the reducer with the spreads left out: the account's other keys, and for
\* pair returns the other pairAddress entries, are not copied
MutReducerNoSpread(st, type, payload) ==
  CASE type = "UPDATE_TRANSACTIONS" ->
         [st EXCEPT ![payload.account] =
            [EmptyEntry EXCEPT !.TRANSACTIONS_KEY = payload.transactions]]
    [] type = "UPDATE_POSITIONS" ->
         [st EXCEPT ![payload.account] =
            [EmptyEntry EXCEPT !.POSITIONS_KEY = payload.positions]]
    [] type = "UPDATE_MINING_POSITIONS" ->
         [st EXCEPT ![payload.account] =
            [EmptyEntry EXCEPT !.MINING_POSITIONS_KEY = payload.miningPositions]]
    [] type = "UPDATE_USER_POSITION_HISTORY" ->
         [st EXCEPT ![payload.account] =
            [EmptyEntry EXCEPT !.USER_SNAPSHOTS = payload.historyData]]
    [] type = "UPDATE_USER_PAIR_RETURNS" ->
         [st EXCEPT ![payload.account].USER_PAIR_RETURNS_KEY =
            [p \in Pools |-> IF p = payload.pairAddress THEN payload.data ELSE 0]]

\* the reducer with the spread after the new key: what the entry held under
\* the key stays
MutReducerOldOverNew(st, type, payload) ==
  CASE type = "UPDATE_TRANSACTIONS" ->
         [st EXCEPT ![payload.account].TRANSACTIONS_KEY =
            IF @ # 0 THEN @ ELSE payload.transactions]
    [] type = "UPDATE_POSITIONS" ->
         [st EXCEPT ![payload.account].POSITIONS_KEY =
            IF @ # 0 THEN @ ELSE payload.positions]
    [] type = "UPDATE_MINING_POSITIONS" ->
         [st EXCEPT ![payload.account].MINING_POSITIONS_KEY =
            IF @ # 0 THEN @ ELSE payload.miningPositions]
    [] type = "UPDATE_USER_POSITION_HISTORY" ->
         [st EXCEPT ![payload.account].USER_SNAPSHOTS =
            IF @ # 0 THEN @ ELSE payload.historyData]
    [] type = "UPDATE_USER_PAIR_RETURNS" ->
         [st EXCEPT ![payload.account].USER_PAIR_RETURNS_KEY[payload.pairAddress] =
            IF @ # 0 THEN @ ELSE payload.data]

\* function reducer(state, { type, payload })
Reducer(st, type, payload) ==
  CASE type = "UPDATE_TRANSACTIONS" ->
         [st EXCEPT ![payload.account].TRANSACTIONS_KEY = payload.transactions]
    [] type = "UPDATE_POSITIONS" ->
         [st EXCEPT ![payload.account].POSITIONS_KEY = payload.positions]
    [] type = "UPDATE_MINING_POSITIONS" ->
         [st EXCEPT ![payload.account].MINING_POSITIONS_KEY = payload.miningPositions]
    [] type = "UPDATE_USER_POSITION_HISTORY" ->
         [st EXCEPT ![payload.account].USER_SNAPSHOTS = payload.historyData]
    [] type = "UPDATE_USER_PAIR_RETURNS" ->
         [st EXCEPT ![payload.account].USER_PAIR_RETURNS_KEY[payload.pairAddress] = payload.data]

\* the callbacks of Provider: each dispatches one action
updateTransactions(st, account, transactions) ==
  Reducer(st, "UPDATE_TRANSACTIONS", [account |-> account, transactions |-> transactions])

updatePositions(st, account, positions) ==
  Reducer(st, "UPDATE_POSITIONS", [account |-> account, positions |-> positions])

updateUserSnapshots(st, account, historyData) ==
  Reducer(st, "UPDATE_USER_POSITION_HISTORY", [account |-> account, historyData |-> historyData])

updateUserPairReturns(st, account, pairAddress, data) ==
  Reducer(st, "UPDATE_USER_PAIR_RETURNS",
          [account |-> account, pairAddress |-> pairAddress, data |-> data])

\* state?.[account] as a hook reads it
View(st, account) == IF account = NoAccount THEN EmptyEntry ELSE st[account]

\* the cached value a fetch of this kind is for
SlotValue(st, kind, account, pair) ==
  CASE kind = "transactions" -> View(st, account).TRANSACTIONS_KEY
    [] kind = "snapshots" -> View(st, account).USER_SNAPSHOTS
    [] kind = "positions" -> View(st, account).POSITIONS_KEY
    [] kind = "positionChart" -> View(st, account).USER_PAIR_RETURNS_KEY[pair]

\* a consumer that is not mounted
NoConsumer == [kind |-> "none", account |-> NoAccount, pair |-> "A", snapDeps |-> <<>>, mainDeps |-> <<>>]

\* if (!transactions && account)
TransactionsGuard(view, account) == view.TRANSACTIONS_KEY = 0 /\ account # NoAccount

\* the guard without the test of the cached value
MutSnapshotsGuardNoCacheTest(view, account) == account # NoAccount

\* if (!snapshots && account)
SnapshotsGuard(view, account) == view.USER_SNAPSHOTS = 0 /\ account # NoAccount

\* if (!positions && account && celoPrice && snapshots)
PositionsGuard(view, account, price) ==
  view.POSITIONS_KEY = 0 /\ account # NoAccount /\ price # 0 /\ view.USER_SNAPSHOTS # 0

\* the snapshots the backend holds for an account (what a completed fetch of
\* its snapshots caches): one account has a snapshot in pool A only, the other
\* has none
SnapshotsOf(account) == IF account = "a1" THEN <<[pair |-> "A"]>> ELSE <<>>

\* pairSnapshots, once snapshots is set:
\* snapshots.filter((currentSnapshot) => currentSnapshot.pair.id === position.pair.id)
PairSnapshots(account, pair) == SelectSeq(SnapshotsOf(account), LAMBDA x : x.pair = pair)

\* the guard without the test of the cached series
MutPositionChartGuardNoCacheTest(view, account, pair, start, pairData, price) ==
  /\ account # NoAccount
  /\ start # 0
  /\ view.USER_SNAPSHOTS # 0
  /\ pairData
  /\ price # 0

\* if (account && startDateTimestamp && pairSnapshots && !formattedHistory &&
\*     currentPairData && Object.keys(currentPairData).length > 0 && pairAddress && currentETHPrice)
PositionChartGuard(view, account, pair, start, pairData, price) ==
  /\ account # NoAccount
  /\ start # 0
  /\ view.USER_SNAPSHOTS # 0
  /\ view.USER_PAIR_RETURNS_KEY[pair] = 0
  /\ pairData
  /\ price # 0

\* the dependency list of the effect of useUserSnapshots: [account, snapshots, updateUserSnapshots]
SnapDeps(st, rec) == <<rec.account, View(st, rec.account).USER_SNAPSHOTS>>

\* whether the consumer's hook calls useUserSnapshots
CallsUseUserSnapshots(kind) == kind \in {"snapshots", "positions", "positionChart"}

\* the dependency list of the hook's own effect (the update callbacks, made
\* with useCallback(..., []), never change and are left out)
MainDeps(st, rec, inp) ==
  LET view == View(st, rec.account)
  IN  CASE rec.kind = "transactions" -> <<rec.account, view.TRANSACTIONS_KEY>>
        [] rec.kind = "positions" ->
             <<rec.account, view.POSITIONS_KEY, inp.price, view.USER_SNAPSHOTS>>
        [] rec.kind = "positionChart" ->
             <<rec.account, inp.start, view.USER_SNAPSHOTS, view.USER_PAIR_RETURNS_KEY[rec.pair],
               rec.pair, inp.pairData, inp.price>>
        [] OTHER -> <<>>

\* an effect that runs after every render
MutSnapEffectEveryRender(st, rec) == CallsUseUserSnapshots(rec.kind)

\* useEffect runs its effect after the first render and after a render whose
\* dependency list differs from the previous one
SnapEffectRuns(st, rec) ==
  CallsUseUserSnapshots(rec.kind) /\ rec.snapDeps # SnapDeps(st, rec)

\* pairSnapshots = snapshots && position && snapshots.filter(...) is a new array
\* in every render once snapshots is set: that dependency then always differs
MainEffectRuns(st, rec, inp) ==
  /\ rec.kind \in {"transactions", "positions", "positionChart"}
  /\ \/ rec.mainDeps # MainDeps(st, rec, inp)
     \/ rec.kind = "positionChart" /\ View(st, rec.account).USER_SNAPSHOTS # 0

MainGuard(st, rec, inp) ==
  LET view == View(st, rec.account)
  IN  CASE rec.kind = "transactions" -> TransactionsGuard(view, rec.account)
        [] rec.kind = "positions" -> PositionsGuard(view, rec.account, inp.price)
        [] rec.kind = "positionChart" ->
             PositionChartGuard(view, rec.account, rec.pair, inp.start, inp.pairData, inp.price)
        [] OTHER -> FALSE

\* a fetchData call: `kind` names the hook whose fetchData it is; `pc` is the
\* await it is suspended at ("query": client.query, "returns": getLPReturnsOnPair
\* or getHistoricalPairReturns) or how it ended ("done", "failed": the error was
\* caught and logged, "uncaught": the promise rejected)
NewFetch(kind, rec, c) ==
  [kind |-> kind, account |-> rec.account,
   pair |-> IF kind = "positionChart" THEN rec.pair ELSE "",
   by |-> c,            \* the consumer whose effect started it
   pc |-> IF kind = "positionChart" THEN "returns" ELSE "query",
   pages |-> 0,         \* full pages of snapshots received so far (skip / 1000)
   requested |-> IF kind = "snapshots" THEN <<0>> ELSE <<>>,
                        \* the `skip` of every snapshots query sent so far, in order
   allResults |-> <<>>, \* `allResults`: the pages received, each named by its `skip`
   rerendered |-> FALSE \* that consumer rendered again, same account, after it failed
  ]

\* the fetches the effects of one render of consumer c start
FetchesStarted(st, rec, c, inp) ==
  (IF SnapEffectRuns(st, rec) /\ SnapshotsGuard(View(st, rec.account), rec.account)
   THEN <<NewFetch("snapshots", rec, c)>> ELSE <<>>)
  \o
  (IF MainEffectRuns(st, rec, inp) /\ MainGuard(st, rec, inp)
   THEN <<NewFetch(rec.kind, rec, c)>> ELSE <<>>)

\* the consumer after the render: the dependency lists of this render are kept.
\* useUserPositionChart's list is not kept: while snapshots is undefined its
\* guard is false, and afterwards its effect runs whatever the list was.
Rendered(st, rec, inp) ==
  [rec EXCEPT !.snapDeps = IF CallsUseUserSnapshots(rec.kind) THEN SnapDeps(st, rec) ELSE <<>>,
              !.mainDeps = IF rec.kind = "positionChart" THEN <<>> ELSE MainDeps(st, rec, inp)]

\* the consumer renders again: its failed fetches for this account have seen
\* a later render
SeenRender(fs, c, account) ==
  [i \in 1..Len(fs) |->
     IF fs[i].by = c /\ fs[i].account = account /\ fs[i].pc \in {"failed", "uncaught"}
     THEN [fs[i] EXCEPT !.rerendered = TRUE] ELSE fs[i]]

UcInit ==
  /\ state = INITIAL_STATE
  /\ cons = [c \in Consumers |-> NoConsumer]
  /\ fetches = <<>>

\* no Provider is mounted
UcIdle == UcInit

\* how many fetches there may be after a render of consumer c: a pair-returns
\* computation needs the snapshots fetched first, so useUserPositionChart may
\* start one more while it is the only hook mounted
FetchCap(c, kind) ==
  IF kind = "positionChart" /\ \A d \in Consumers \ {c} : cons[d].kind = "none"
  THEN MaxFetches + 1 ELSE MaxFetches

\* one render of consumer c with props rec, and the effects it runs
RenderStep(c, rec, fs, inp) ==
  LET started == FetchesStarted(state, rec, c, inp)
  IN  /\ Len(fs) + Len(started) <= FetchCap(c, rec.kind)
      /\ fetches' = fs \o started
      /\ cons' = [cons EXCEPT ![c] = Rendered(state, rec, inp)]
      /\ UNCHANGED state
      /\ UNCHANGED notUc

\* a component calling one of the hooks is mounted: first render and effects
Mount(c, kind, account, pair, inp) ==
  /\ cons[c].kind = "none"
  /\ RenderStep(c, [NoConsumer EXCEPT !.kind = kind, !.account = account, !.pair = pair],
                fetches, inp)

\* the component renders again with the same props
Render(c, inp) ==
  /\ cons[c].kind # "none"
  /\ RenderStep(c, cons[c], SeenRender(fetches, c, cons[c].account), inp)

\* the component is rendered with another account
ChangeAccount(c, account, inp) ==
  /\ cons[c].kind # "none"
  /\ cons[c].account # account
  /\ RenderStep(c, [cons[c] EXCEPT !.account = account], fetches, inp)

\* ---- the rest of each fetchData, from the await on ----

\* the transactions written for the account the consumer has by now
MutAfterTransactionsQueryCurrentAccount(st, f, id, hasData) ==
  IF hasData THEN updateTransactions(st, cons[f.by].account, id) ELSE st

\* useUserTransactions: if (result?.data) updateTransactions(account, result?.data)
AfterTransactionsQuery(st, f, id, hasData) ==
  IF hasData THEN updateTransactions(st, f.account, id) ELSE st

\* if (result.data.liquidityPositionSnapshots.length < 1000) ... else skip += 1000
PAGE_SIZE == 1000

\* the new page put in front of the earlier ones
MutConcatPagePrepend(allResults, page) == <<page>> \o allResults

\* allResults = allResults.concat(result.data.liquidityPositionSnapshots)
ConcatPage(allResults, page) == allResults \o <<page>>

\* the cache is updated with every page
MutAfterSnapshotsPageWriteEach(st, f, id, short) == updateUserSnapshots(st, f.account, id)

\* useUserSnapshots: the page is added to allResults; after a page of fewer than
\* 1000 snapshots the loop ends and updateUserSnapshots(account, allResults) is called
AfterSnapshotsPage(st, f, id, short) ==
  IF short THEN updateUserSnapshots(st, f.account, id) ELSE st

\* useUserPositions: after Promise.all, updatePositions(account, formattedPositions)
AfterPositionsReturns(st, f, id) == updatePositions(st, f.account, id)

\* useUserPositionChart: updateUserPairReturns(account, pairAddress, fetchedData)
AfterPairReturns(st, f, id) == updateUserPairReturns(st, f.account, f.pair, id)

\* catch (e) { console.log(e) }
AfterCatch(st, f, id) == st

FetchUnchanged == UNCHANGED cons /\ UNCHANGED notUc

InFlight(id, kind, pc) ==
  /\ id \in 1..Len(fetches)
  /\ fetches[id].kind = kind
  /\ fetches[id].pc = pc

TransactionsResolve(id, hasData) ==
  /\ InFlight(id, "transactions", "query")
  /\ state' = AfterTransactionsQuery(state, fetches[id], id, hasData)
  /\ fetches' = [fetches EXCEPT ![id].pc = "done"]
  /\ FetchUnchanged

TransactionsReject(id) ==
  /\ InFlight(id, "transactions", "query")
  /\ state' = AfterCatch(state, fetches[id], id)
  /\ fetches' = [fetches EXCEPT ![id].pc = "failed"]
  /\ FetchUnchanged

SnapshotsPageResolve(id, short) ==
  /\ InFlight(id, "snapshots", "query")
  /\ short \/ fetches[id].pages < MaxPages
  /\ state' = AfterSnapshotsPage(state, fetches[id], id, short)
  /\ LET skip == fetches[id].pages * PAGE_SIZE
         all == ConcatPage(fetches[id].allResults, skip)
     IN  fetches' = IF short
                    THEN [fetches EXCEPT ![id].pc = "done", ![id].allResults = all]
                    ELSE [fetches EXCEPT ![id].pages = @ + 1, ![id].allResults = all,
                                         ![id].requested = Append(@, skip + PAGE_SIZE)]
  /\ FetchUnchanged

SnapshotsReject(id) ==
  /\ InFlight(id, "snapshots", "query")
  /\ state' = AfterCatch(state, fetches[id], id)
  /\ fetches' = [fetches EXCEPT ![id].pc = "failed"]
  /\ FetchUnchanged

\* if (result?.data?.liquidityPositions) { ... await Promise.all(...) ... }
PositionsQueryResolve(id, hasPositions) ==
  /\ InFlight(id, "positions", "query")
  /\ fetches' = [fetches EXCEPT ![id].pc = IF hasPositions THEN "returns" ELSE "done"]
  /\ UNCHANGED state
  /\ FetchUnchanged

PositionsQueryReject(id) ==
  /\ InFlight(id, "positions", "query")
  /\ state' = AfterCatch(state, fetches[id], id)
  /\ fetches' = [fetches EXCEPT ![id].pc = "failed"]
  /\ FetchUnchanged

PositionsReturnsResolve(id) ==
  /\ InFlight(id, "positions", "returns")
  /\ state' = AfterPositionsReturns(state, fetches[id], id)
  /\ fetches' = [fetches EXCEPT ![id].pc = "done"]
  /\ FetchUnchanged

\* one getLPReturnsOnPair rejects: Promise.all rejects, the catch logs it
PositionsReturnsReject(id) ==
  /\ InFlight(id, "positions", "returns")
  /\ state' = AfterCatch(state, fetches[id], id)
  /\ fetches' = [fetches EXCEPT ![id].pc = "failed"]
  /\ FetchUnchanged

PairReturnsResolve(id) ==
  /\ InFlight(id, "positionChart", "returns")
  /\ state' = AfterPairReturns(state, fetches[id], id)
  /\ fetches' = [fetches EXCEPT ![id].pc = "done"]
  /\ FetchUnchanged

\* getHistoricalPairReturns rejects: this fetchData has no try/catch
PairReturnsReject(id) ==
  /\ InFlight(id, "positionChart", "returns")
  /\ fetches' = [fetches EXCEPT ![id].pc = "uncaught"]
  /\ UNCHANGED state
  /\ FetchUnchanged

Next ==
  \/ \E c \in Consumers, kind \in HookKinds, account \in Accounts, inp \in RenderInputs :
       \E pair \in IF kind = "positionChart" THEN Pools ELSE {"A"} :
          Mount(c, kind, account, pair, inp)
  \/ \E c \in Consumers, inp \in RenderInputs : Render(c, inp)
  \/ \E c \in Consumers, account \in Accounts, inp \in RenderInputs : ChangeAccount(c, account, inp)
  \/ \E id \in 1..(MaxFetches + 1), hasData \in BOOLEAN : TransactionsResolve(id, hasData)
  \/ \E id \in 1..(MaxFetches + 1) : TransactionsReject(id)
  \/ \E id \in 1..(MaxFetches + 1), short \in BOOLEAN : SnapshotsPageResolve(id, short)
  \/ \E id \in 1..(MaxFetches + 1) : SnapshotsReject(id)
  \/ \E id \in 1..(MaxFetches + 1), hasPositions \in BOOLEAN : PositionsQueryResolve(id, hasPositions)
  \/ \E id \in 1..(MaxFetches + 1) : PositionsQueryReject(id)
  \/ \E id \in 1..(MaxFetches + 1) : PositionsReturnsResolve(id)
  \/ \E id \in 1..(MaxFetches + 1) : PositionsReturnsReject(id)
  \/ \E id \in 1..(MaxFetches + 1) : PairReturnsResolve(id)
  \/ \E id \in 1..(MaxFetches + 1) : PairReturnsReject(id)

(***************************************************************************)
(* Object keys `t${timestamp}` and their way back to a number.  A string   *)
(* is the sequence of its characters.                                      *)
(***************************************************************************)
DigitChars == <<"0", "1", "2", "3", "4", "5", "6", "7", "8", "9">>

\* the decimal string of a whole number
RECURSIVE DecimalString(_)
DecimalString(n) ==
  IF n < 10 THEN <<DigitChars[n + 1]>>
  ELSE DecimalString(n \div 10) \o <<DigitChars[(n % 10) + 1]>>

\* `t${timestamp}`
KeyOf(timestamp) == <<"t">> \o DecimalString(timestamp)

\* str.split(ch): the pieces between the occurrences of ch
RECURSIVE Split(_, _)
Split(str, ch) ==
  IF \A i \in 1..Len(str) : str[i] # ch THEN <<str>>
  ELSE LET i == CHOOSE j \in 1..Len(str) :
                  str[j] = ch /\ \A k \in 1..(j - 1) : str[k] # ch
       IN  <<SubSeq(str, 1, i - 1)>> \o Split(SubSeq(str, i + 1, Len(str)), ch)

\* parseInt(str) for a string without sign or blanks: the number its leading
\* digits spell, "NaN" when it starts with no digit
RECURSIVE ParseIntFrom(_, _)
ParseIntFrom(str, acc) ==
  IF str = <<>> \/ ~(\E d \in 1..10 : DigitChars[d] = str[1]) THEN acc
  ELSE ParseIntFrom(Tail(str),
                    10 * acc + (CHOOSE d \in 0..9 : DigitChars[d + 1] = str[1]))

ParseInt(str) ==
  IF str = <<>> \/ ~(\E d \in 1..10 : DigitChars[d] = str[1]) THEN "NaN"
  ELSE ParseIntFrom(str, 0)

(***************************************************************************)
(* getBlocksFromTimestamps(timestamps, skipCount): the call of splitQuery  *)
(* is the splitQuery part above, with `timestamps` as its list.            *)
(***************************************************************************)
\* the number of the first block at or after a timestamp: later timestamps
\* have later blocks
BlockNumberAt(timestamp) == timestamp \div 100

\* fetchedData[t]: the blocks the backend lists for the timestamp, earliest
\* first, their numbers as strings
BlocksFor(timestamp, missing) ==
  IF timestamp \in missing THEN <<>>
  ELSE <<[number |-> DecimalString(BlockNumberAt(timestamp))],
         [number |-> DecimalString(BlockNumberAt(timestamp) + 1)]>>

\* the loop without the test of fetchedData[t].length
RECURSIVE MutBlocksOfNoEmptyTest(_, _, _)
MutBlocksOfNoEmptyTest(fetched, missing, k) ==
  IF k > Len(fetched) THEN <<>>
  ELSE <<[timestamp |-> ParseInt(Split(KeyOf(fetched[k]), "t")[2]),
          number |-> BlockNumberAt(fetched[k])]>>
       \o MutBlocksOfNoEmptyTest(fetched, missing, k + 1)

\* for (const t in fetchedData) if (fetchedData[t].length > 0) blocks.push({
\*   timestamp: parseInt(t.split('t')[1]), number: parseInt(fetchedData[t][0]['number']) })
RECURSIVE BlocksOf(_, _, _)
BlocksOf(fetched, missing, k) ==
  IF k > Len(fetched) THEN <<>>
  ELSE LET t == KeyOf(fetched[k])
           list == BlocksFor(fetched[k], missing)
       IN  (IF Len(list) > 0
            THEN <<[timestamp |-> ParseInt(Split(t, "t")[2]),
                    number |-> ParseInt(list[1].number)]>>
            ELSE <<>>)
           \o BlocksOf(fetched, missing, k + 1)

\* the call with its arguments, before its first statement
BkInit ==
  /\ sqList \in SeqsUpTo(Timestamps, MaxListLen)
  /\ sqSkipCount \in 1..MaxSkipCount
  /\ sqPc = "idle"
  /\ sqSkip = 0
  /\ sqSliced = <<>>
  /\ sqRequests = <<>>
  /\ sqFetched = <<>>
  /\ sqAllFull = TRUE
  /\ bkPc = "called"
  /\ bkMissing \in SUBSET Timestamps
  /\ bkBlocks = <<>>

\* if (timestamps?.length === 0) return []
BkReturnEmpty ==
  /\ bkPc = "called"
  /\ Len(sqList) = 0
  /\ bkPc' = "done"
  /\ UNCHANGED <<bkMissing, bkBlocks, sqVars>>
  /\ UNCHANGED notBk

\* await splitQuery(GET_BLOCKS, blockClient, [], timestamps, skipCount)
BkCallSplitQuery ==
  /\ bkPc = "called"
  /\ Len(sqList) # 0
  /\ bkPc' = "await"
  /\ sqPc' = "loop"
  /\ UNCHANGED <<bkMissing, bkBlocks, sqList, sqSkipCount, sqSkip, sqSliced, sqRequests,
                 sqFetched, sqAllFull>>
  /\ UNCHANGED notBk

\* splitQuery has returned fetchedData: the blocks are collected and returned
BkReturn ==
  /\ bkPc = "await"
  /\ sqPc = "done"
  /\ bkBlocks' = BlocksOf(sqFetched, bkMissing, 1)
  /\ bkPc' = "done"
  /\ UNCHANGED <<bkMissing, sqVars>>
  /\ UNCHANGED notBk

\* splitQuery has rejected: so does the call
BkReject ==
  /\ bkPc = "await"
  /\ sqPc = "failed"
  /\ bkPc' = "failed"
  /\ UNCHANGED <<bkMissing, bkBlocks, sqVars>>
  /\ UNCHANGED notBk

BkNext == BkReturnEmpty \/ BkCallSplitQuery \/ BkReturn \/ BkReject \/ SqNext

(***************************************************************************)
(* getShareValueOverTime(pairAddress, timestamps)                          *)
(***************************************************************************)
\* what toFloat gives for data.reserveUSD and for data.totalSupply
ReserveValues == {0, 100, 300}
SupplyValues == {0, 10, 20}

\* one entry of result.data: its key and the pair's state at that block, or
\* null (`present` false) when the backend has none
ShareRows ==
  [key : {KeyOf(t) : t \in Timestamps}, present : {TRUE},
   reserveUSD : ReserveValues, totalSupply : SupplyValues]
  \cup
  [key : {KeyOf(t) : t \in Timestamps}, present : {FALSE}, reserveUSD : {0}, totalSupply : {0}]

\* the objects result.data may be: every key once
ShareResults ==
  {r \in SeqsUpTo(ShareRows, MaxRows) :
     \A i, j \in 1..Len(r) : i # j => r[i].key # r[j].key}

\* const sharePriceUsd = toFloat(data?.reserveUSD) / toFloat(data?.totalSupply)
SharePriceUsd(data) == FDiv(ParseFloat(data.reserveUSD), ParseFloat(data.totalSupply))

\* the ratio to the sample before, not to the first
MutRoiUsdToPrevious(values, sharePriceUsd) ==
  IF values # <<>> THEN FDiv(sharePriceUsd, values[Len(values)].sharePriceUsd) ELSE <<1, 1>>

\* roiUsd: values && values[0] ? sharePriceUsd / values[0]['sharePriceUsd'] : 1
RoiUsd(values, sharePriceUsd) ==
  IF values # <<>> THEN FDiv(sharePriceUsd, values[1].sharePriceUsd) ELSE <<1, 1>>

\* the body of `for (const row in result?.data)` over the rows from k on
RECURSIVE ShareValues(_, _, _)
ShareValues(rows, k, values) ==
  IF k > Len(rows) THEN values
  ELSE LET row == rows[k]
           timestamp == Split(row.key, "t")[2]
       IN  IF timestamp # <<>> /\ row.present
           THEN ShareValues(rows, k + 1,
                  Append(values,
                         [timestamp |-> ParseInt(timestamp),
                          sharePriceUsd |-> SharePriceUsd(row),
                          totalSupply |-> row.totalSupply,
                          reserveUSD |-> row.reserveUSD,
                          roiUsd |-> RoiUsd(values, SharePriceUsd(row))]))
           ELSE ShareValues(rows, k + 1, values)

\* the call, up to the await of getBlocksFromTimestamps
SvInit ==
  /\ svPc = "blocks"
  /\ svRows = <<>>
  /\ svValues = <<>>

\* getBlocksFromTimestamps resolves; client.query is awaited
SvBlocksResolve ==
  /\ svPc = "blocks"
  /\ svPc' = "query"
  /\ UNCHANGED <<svRows, svValues>>
  /\ UNCHANGED notSv

\* the query resolves; the loop over its rows runs and `values` is returned
SvQueryResolve ==
  /\ svPc = "query"
  /\ \E rows \in ShareResults :
       /\ svRows' = rows
       /\ svValues' = ShareValues(rows, 1, <<>>)
  /\ svPc' = "done"
  /\ UNCHANGED notSv

\* getBlocksFromTimestamps or the query rejects: the call rejects
SvReject ==
  /\ svPc \in {"blocks", "query"}
  /\ svPc' = "failed"
  /\ UNCHANGED <<svRows, svValues>>
  /\ UNCHANGED notSv

SvNext == SvBlocksResolve \/ SvQueryResolve \/ SvReject

(***************************************************************************)
(* The first effect of useUserLiquidityChart: the start of the window.     *)
(* Times are seconds since the epoch, in UTC, on the Gregorian calendar.   *)
(***************************************************************************)
MaxTicks == 4

\* timeframeOptions.WEEK, .MONTH, .ALL_TIME
WEEK == "1 week"
MONTH == "1 month"
ALL_TIME == "All time"
Timeframes == {WEEK, MONTH, ALL_TIME}

\* the day number (days since 1970-01-01) of a date
DaysFromCivil(y, m, d) ==
  LET yy  == IF m <= 2 THEN y - 1 ELSE y
      era == yy \div 400
      yoe == yy - era * 400
      mp  == IF m > 2 THEN m - 3 ELSE m + 9
      doy == (153 * mp + 2) \div 5 + d - 1
      doe == yoe * 365 + yoe \div 4 - yoe \div 100 + doy
  IN  era * 146097 + doe - 719468

\* the date of a day number
CivilFromDays(days) ==
  LET z   == days + 719468
      era == z \div 146097
      doe == z - era * 146097
      yoe == (doe - doe \div 1460 + doe \div 36524 - doe \div 146096) \div 365
      doy == doe - (365 * yoe + yoe \div 4 - yoe \div 100)
      mp  == (5 * doy + 2) \div 153
      d   == doy - (153 * mp + 2) \div 5 + 1
      m   == IF mp < 10 THEN mp + 3 ELSE mp - 9
  IN  [year |-> yoe + era * 400 + (IF m <= 2 THEN 1 ELSE 0), month |-> m, date |-> d]

IsLeapYear(y) == (y % 4 = 0 /\ y % 100 # 0) \/ y % 400 = 0

DaysInMonth(y, m) ==
  IF m = 2 THEN (IF IsLeapYear(y) THEN 29 ELSE 28)
  ELSE IF m \in {4, 6, 9, 11} THEN 30 ELSE 31

\* .subtract(1, 'week')
SubtractWeek(t) == t - 7 * DAY

\* .subtract(1, 'year'): the same month, day and time of the year before, the
\* day clamped to the length of the month
SubtractYear(t) ==
  LET c == CivilFromDays(t \div DAY)
      d == Min2(c.date, DaysInMonth(c.year - 1, c.month))
  IN  DaysFromCivil(c.year - 1, c.month, d) * DAY + (t % DAY)

\* .startOf('day')
StartOfDay(t) == (t \div DAY) * DAY

\* .startOf('year')
StartOfYear(t) == DaysFromCivil(CivilFromDays(t \div DAY).year, 1, 1) * DAY

\* switch (activeWindow) { ... }
UtcStartTime(window, utcEndTime) ==
  CASE window = WEEK     -> StartOfDay(SubtractWeek(utcEndTime))
    [] window = ALL_TIME -> SubtractYear(utcEndTime)
    [] OTHER             -> StartOfYear(SubtractYear(utcEndTime))

\* const startTime = utcStartTime.unix() - 1
StartTime(window, utcEndTime) == UtcStartTime(window, utcEndTime) - 1

\* the test without the comparison of the two starts
MutNeedsNewStartAnyWindow(startDateTimestamp, window, startTime) ==
  startDateTimestamp = 0 \/ window # ""

\* if (!startDateTimestamp || (activeWindow && startTime < startDateTimestamp))
NeedsNewStart(startDateTimestamp, window, startTime) ==
  startDateTimestamp = 0 \/ (window # "" /\ startTime < startDateTimestamp)

\* the instants the hook is mounted at: noon of 2024-02-29, and 18:00 of
\* 2024-12-31
MountTimes == {1709208000, 1735668000}

\* the hook is mounted: nothing rendered yet, startDateTimestamp undefined
TwInit ==
  /\ clock \in MountTimes
  /\ activeWindow \in Timeframes
  /\ twLast = <<>>
  /\ lcHistory = <<>>
  /\ lcStart = 0
  /\ lcPc = "idle"
  /\ lcDayTimestamps = <<>>
  /\ lcPairs = <<>>
  /\ lcPairDayDatas = <<>>
  /\ lcFormatted = <<>>
  /\ lcOwnLog = <<>>
  /\ lcUsedLog = <<>>

twFrame == <<notTw, lcHistory, lcPc, lcDayTimestamps, lcPairs,
             lcPairDayDatas, lcFormatted, lcOwnLog, lcUsedLog>>

\* a render whose [activeWindow, startDateTimestamp] differ from those of the
\* last run of the effect (or the first render): the effect runs
TwEffect ==
  /\ IF twLast = <<>> THEN TRUE
     ELSE <<twLast[1].activeWindow, twLast[1].startDateTimestamp>> # <<activeWindow, lcStart>>
  /\ LET startTime == StartTime(activeWindow, clock)
     IN  /\ lcStart' = IF NeedsNewStart(lcStart, activeWindow, startTime)
                       THEN startTime ELSE lcStart
         /\ twLast' = <<[activeWindow |-> activeWindow, startDateTimestamp |-> lcStart,
                        startTime |-> startTime]>>
  /\ UNCHANGED <<clock, activeWindow, twFrame>>

\* the user picks another timeframe
TwSetTimeframe(window) ==
  /\ twLast # <<>>
  /\ window # activeWindow
  /\ activeWindow' = window
  /\ UNCHANGED <<clock, lcStart, twLast, twFrame>>

\* twelve hours pass
TwTick ==
  /\ \E t \in MountTimes : t <= clock /\ clock < t + MaxTicks * (DAY \div 2)
  /\ clock' = clock + DAY \div 2
  /\ UNCHANGED <<lcStart, activeWindow, twLast, twFrame>>

TwNext == TwEffect \/ TwTick \/ \E window \in Timeframes : TwSetTimeframe(window)

(***************************************************************************)
(* getPercentChange and get2DayPercentChange.  A number is an exact        *)
(* fraction <<n, d>> with d >= 0: <<1, 0>> is Infinity, <<-1, 0>> is       *)
(* -Infinity and <<0, 0>> is NaN.  An argument is <<>> while it is         *)
(* undefined and <<n>> for the whole number n (or its decimal string).     *)
(***************************************************************************)
Sign(n) == IF n > 0 THEN 1 ELSE IF n < 0 THEN -1 ELSE 0

\* the quotient n / d of two whole numbers of either sign
SNorm(n, d) ==
  IF d = 0 THEN <<Sign(n), 0>>
  ELSE IF d < 0 THEN Norm(-n, -d)
  ELSE Norm(n, d)

\* operator - on finite numbers
FSub(x, y) == SNorm(x[1] * y[2] - y[1] * x[2], x[2] * y[2])

\* operator / on finite numbers: x / 0 is an Infinity, 0 / 0 is NaN
SDiv(x, y) == SNorm(x[1] * y[2], x[2] * y[1])

\* operator * by a finite number that is not 0
SMul(x, y) == SNorm(x[1] * y[1], x[2] * y[2])

IsNaN(x) == x = <<0, 0>>

IsFinite(x) == x[2] # 0

\* (n).toString() of a whole number
NumberString(n) == IF n < 0 THEN <<"-">> \o DecimalString(-n) ELSE DecimalString(n)

\* parseFloat(str) for a string of an optional sign and digits: NaN when no
\* digit follows the sign
ParseFloatOf(str) ==
  LET neg  == str # <<>> /\ str[1] = "-"
      body == IF neg THEN Tail(str) ELSE str
  IN  IF body # <<>> /\ \E d \in 1..10 : DigitChars[d] = body[1]
      THEN <<(IF neg THEN -1 ELSE 1) * ParseIntFrom(body, 0), 1>>
      ELSE <<0, 0>>

\* valueNow?.toString() ?? '0'
StringOrZero(arg) == IF arg = <<>> THEN <<"0">> ELSE NumberString(arg[1])

\* a parameter with the default value '0'
OrDefaultZero(arg) == IF arg = <<>> THEN <<"0">> ELSE NumberString(arg[1])

\* the quotient returned as it is
MutGetPercentChangeNoGuard(valueNow, value24HoursAgo) ==
  SMul(SDiv(FSub(ParseFloatOf(StringOrZero(valueNow)),
                 ParseFloatOf(StringOrZero(value24HoursAgo))),
            ParseFloatOf(StringOrZero(value24HoursAgo))),
       <<100, 1>>)

\* export const getPercentChange = (valueNow?, value24HoursAgo?) => ...
GetPercentChange(valueNow, value24HoursAgo) ==
  LET adjustedPercentChange ==
        SMul(SDiv(FSub(ParseFloatOf(StringOrZero(valueNow)),
                       ParseFloatOf(StringOrZero(value24HoursAgo))),
                  ParseFloatOf(StringOrZero(value24HoursAgo))),
             <<100, 1>>)
  IN  IF IsNaN(adjustedPercentChange) \/ ~IsFinite(adjustedPercentChange)
      THEN <<0, 1>>
      ELSE adjustedPercentChange

\* the differences of get2DayPercentChange are whole numbers here: their
\* toString() is NumberString of the numerator
ChangeString(x) == NumberString(x[1])

\* the quotient returned as it is
MutGet2DayPercentChangeNoGuard(valueNow, value24HoursAgo, value48HoursAgo) ==
  LET currentChange  == FSub(ParseFloatOf(NumberString(valueNow[1])),
                             ParseFloatOf(OrDefaultZero(value24HoursAgo)))
      previousChange == FSub(ParseFloatOf(OrDefaultZero(value24HoursAgo)),
                             ParseFloatOf(OrDefaultZero(value48HoursAgo)))
  IN  <<currentChange,
        SMul(SDiv(ParseFloatOf(ChangeString(FSub(currentChange, previousChange))),
                  ParseFloatOf(ChangeString(previousChange))),
             <<100, 1>>)>>

\* export const get2DayPercentChange = (valueNow, value24HoursAgo = '0',
\*   value48HoursAgo = '0') => ...
Get2DayPercentChange(valueNow, value24HoursAgo, value48HoursAgo) ==
  LET currentChange  == FSub(ParseFloatOf(NumberString(valueNow[1])),
                             ParseFloatOf(OrDefaultZero(value24HoursAgo)))
      previousChange == FSub(ParseFloatOf(OrDefaultZero(value24HoursAgo)),
                             ParseFloatOf(OrDefaultZero(value48HoursAgo)))
      adjustedPercentChange ==
        SMul(SDiv(ParseFloatOf(ChangeString(FSub(currentChange, previousChange))),
                  ParseFloatOf(ChangeString(previousChange))),
             <<100, 1>>)
  IN  IF IsNaN(adjustedPercentChange) \/ ~IsFinite(adjustedPercentChange)
      THEN <<currentChange, <<0, 1>>>>
      ELSE <<currentChange, adjustedPercentChange>>

\* the arguments getPercentChange is called with
PercentArgs == {<<>>, <<0>>, <<50>>, <<100>>, <<110>>, <<-100>>}

\* the arguments get2DayPercentChange is called with: valueNow is always given
TwoDayArgs == {<<>>, <<0>>, <<100>>, <<200>>, <<300>>}

FnCalls ==
  [name : {"getPercentChange"}, args : PercentArgs \X PercentArgs]
  \cup [name : {"get2DayPercentChange"},
        args : (TwoDayArgs \ {<<>>}) \X TwoDayArgs \X TwoDayArgs]

\* one of the two functions is called
FnInit ==
  /\ fnCall \in {<<c>> : c \in FnCalls}
  /\ fnResult = <<>>

GetPercentChangeReturn ==
  /\ fnResult = <<>>
  /\ fnCall[1].name = "getPercentChange"
  /\ fnResult' = <<GetPercentChange(fnCall[1].args[1], fnCall[1].args[2])>>
  /\ UNCHANGED <<fnCall, sqVars, lcVars, ucVars, bkVars, svVars, twVars, rdVars, rcVars>>

Get2DayPercentChangeReturn ==
  /\ fnResult = <<>>
  /\ fnCall[1].name = "get2DayPercentChange"
  /\ fnResult' = <<Get2DayPercentChange(fnCall[1].args[1], fnCall[1].args[2],
                                        fnCall[1].args[3])>>
  /\ UNCHANGED <<fnCall, sqVars, lcVars, ucVars, bkVars, svVars, twVars, rdVars, rcVars>>

FnNext == GetPercentChangeReturn \/ Get2DayPercentChangeReturn

(***************************************************************************)
(* The reducer driven directly: any action, for any account, in any order. *)
(***************************************************************************)
MaxDispatches == 3
MaxPayload == 2

\* the actions the callbacks of Provider dispatch; the data is one of a few
\* values that differ from each other
Actions ==
  {[type |-> "UPDATE_TRANSACTIONS", payload |-> [account |-> a, transactions |-> d]] :
     a \in Accounts, d \in 1..MaxPayload}
  \cup {[type |-> "UPDATE_POSITIONS", payload |-> [account |-> a, positions |-> d]] :
     a \in Accounts, d \in 1..MaxPayload}
  \cup {[type |-> "UPDATE_MINING_POSITIONS", payload |-> [account |-> a, miningPositions |-> d]] :
     a \in Accounts, d \in 1..MaxPayload}
  \cup {[type |-> "UPDATE_USER_POSITION_HISTORY", payload |-> [account |-> a, historyData |-> d]] :
     a \in Accounts, d \in 1..MaxPayload}
  \cup {[type |-> "UPDATE_USER_PAIR_RETURNS",
         payload |-> [account |-> a, pairAddress |-> p, data |-> d]] :
     a \in Accounts, p \in Pools, d \in 1..MaxPayload}

\* const [state, dispatch] = useReducer(reducer, INITIAL_STATE)
RdInit ==
  /\ state = INITIAL_STATE
  /\ cons = [c \in Consumers |-> NoConsumer]
  /\ fetches = <<>>
  /\ rdDispatched = <<>>

\* dispatch(action)
Dispatch(action) ==
  /\ Len(rdDispatched) < MaxDispatches
  /\ state' = Reducer(state, action.type, action.payload)
  /\ rdDispatched' = Append(rdDispatched, action)
  /\ UNCHANGED <<cons, fetches, sqVars, lcVars, bkVars, svVars, twVars, fnVars, rcVars>>

RdNext == \E action \in Actions : Dispatch(action)

(***************************************************************************)
(* useUserLiquidityChart rendered with changing inputs: every render whose *)
(* [history, startDateTimestamp] changed runs the second effect again, and *)
(* each fetchData started goes on to its end with the values of its own    *)
(* render.                                                                 *)
(***************************************************************************)
MaxRuns == 2

\* the histories the hook is rendered with here: snapshots of pool A inside
\* day 0 and inside day 1
RcHistories ==
  {h \in Histories :
     /\ h # <<>>
     /\ \A i \in 1..Len(h) : h[i].pair = "A" /\ h[i].timestamp \in {100, DAY + 100}}

\* the hook is mounted on day 2; no snapshots and no window start yet
RcInit ==
  /\ clock = 2 * DAY + 5
  /\ lcHistory = <<>>
  /\ lcStart = 0
  /\ lcPc = "idle"
  /\ lcDayTimestamps = <<>>
  /\ lcPairs = <<>>
  /\ lcPairDayDatas = <<>>
  /\ lcFormatted = <<>>
  /\ lcOwnLog = <<>>
  /\ lcUsedLog = <<>>
  /\ rcRuns = <<>>

rcFrame == <<clock, lcPc, lcDayTimestamps, lcPairs, lcPairDayDatas, lcOwnLog, lcUsedLog,
             sqVars, ucVars, bkVars, svVars, twVars, fnVars, rdVars>>

\* fetchData up to its await, with the history and startDateTimestamp of the render
NewRun(history, start, now) ==
  [history |-> history, start |-> start,
   dayTimestamps |-> DayTimestamps(FirstDayIndex(history, start), CurrentDayIndex(now)),
   pc |-> "await", result |-> <<>>]

\* a render with another history (the cached snapshots changed) or an earlier
\* window start: the dependencies changed, so the effect runs and, with both
\* present, calls fetchData
RcRender(history, start) ==
  /\ Len(rcRuns) < MaxRuns
  /\ <<history, start>> # <<lcHistory, lcStart>>
  /\ lcStart # 0 => start <= lcStart
  /\ lcHistory' = history
  /\ lcStart' = start
  /\ rcRuns' = IF history # <<>> /\ start # 0
               THEN Append(rcRuns, NewRun(history, start, clock))
               ELSE rcRuns
  /\ UNCHANGED <<lcFormatted, rcFrame>>

\* the day-data query of one fetchData resolves: its day loop runs over the
\* history of its own render and setFormattedHistory is called
RcResolve(i, pairDayDatas) ==
  /\ i \in 1..Len(rcRuns)
  /\ rcRuns[i].pc = "await"
  /\ LET loop == DayLoop(rcRuns[i].history, pairDayDatas, rcRuns[i].dayTimestamps, 1, <<>>)
         formattedHistory ==
           [k \in 1..Len(loop) |-> [date |-> loop[k].date, valueUSD |-> loop[k].valueUSD]]
     IN  /\ lcFormatted' = formattedHistory
         /\ rcRuns' = [rcRuns EXCEPT ![i].pc = "done", ![i].result = formattedHistory]
  /\ UNCHANGED <<lcHistory, lcStart, rcFrame>>

\* the day-data query of one fetchData rejects
RcReject(i) ==
  /\ i \in 1..Len(rcRuns)
  /\ rcRuns[i].pc = "await"
  /\ rcRuns' = [rcRuns EXCEPT ![i].pc = "uncaught"]
  /\ UNCHANGED <<lcHistory, lcStart, lcFormatted, rcFrame>>

RcNext ==
  \/ \E history \in RcHistories, start \in StartTimes : RcRender(history, start)
  \/ \E i \in 1..MaxRuns :
       \/ \E pairDayDatas \in SeqsUpTo(DayDataRecords, 1) : RcResolve(i, pairDayDatas)
       \/ RcReject(i)

(***************************************************************************)
(* The specifications.                                                     *)
(***************************************************************************)
\* one call of splitQuery; no hook is mounted
InitSplitQuery == SqInit /\ LcIdle /\ UcIdle /\ BkIdle /\ SvIdle /\ TwIdle /\ FnIdle /\ RdIdle /\ RcIdle

SpecSplitQuery == InitSplitQuery /\ [][SqNext]_vars

\* the same, with every query answered in the end and the loop going on
SpecSplitQueryFair == InitSplitQuery /\ [][SqNext]_vars /\ WF_vars(SqNext)

\* one consumer of useUserLiquidityChart, its history and window start given
InitLiquidity == LcInit /\ SqIdle /\ UcIdle /\ BkIdle /\ SvIdle /\ TwIdle /\ FnIdle /\ RdIdle /\ RcIdle

SpecLiquidity == InitLiquidity /\ [][LcNext]_vars

\* the Provider with an empty cache and no consumer mounted yet
Init == UcInit /\ SqIdle /\ LcIdle /\ BkIdle /\ SvIdle /\ TwIdle /\ FnIdle /\ RdIdle /\ RcIdle

Spec == Init /\ [][Next]_vars

\* one call of getShareValueOverTime
InitShareValue == SvInit /\ SqIdle /\ LcIdle /\ UcIdle /\ BkIdle /\ TwIdle /\ FnIdle /\ RdIdle /\ RcIdle

SpecShareValue == InitShareValue /\ [][SvNext]_vars

\* one call of getBlocksFromTimestamps
InitBlocks == BkInit /\ LcIdle /\ UcIdle /\ SvIdle /\ TwIdle /\ FnIdle /\ RdIdle /\ RcIdle

SpecBlocks == InitBlocks /\ [][BkNext]_vars

\* one consumer of useUserLiquidityChart, its window start followed
InitWindow == TwInit /\ SqIdle /\ UcIdle /\ BkIdle /\ SvIdle /\ FnIdle /\ RdIdle /\ RcIdle

SpecWindow == InitWindow /\ [][TwNext]_vars

\* one call of getPercentChange or get2DayPercentChange
InitPercent == FnInit /\ SqIdle /\ LcIdle /\ UcIdle /\ BkIdle /\ SvIdle /\ TwIdle /\ RdIdle /\ RcIdle

SpecPercent == InitPercent /\ [][FnNext]_vars

\* the Provider's reducer with an empty cache, no consumer mounted
InitReducer == RdInit /\ SqIdle /\ LcIdle /\ BkIdle /\ SvIdle /\ TwIdle /\ FnIdle /\ RcIdle

SpecReducer == InitReducer /\ [][RdNext]_vars

\* one consumer of useUserLiquidityChart rendered with changing inputs
InitLiquidityRuns == RcInit /\ SqIdle /\ UcIdle /\ BkIdle /\ SvIdle /\ TwIdle /\ FnIdle /\ RdIdle

SpecLiquidityRuns == InitLiquidityRuns /\ [][RcNext]_vars

(***************************************************************************)
(* C1: for p >= 1 and n >= 1, when every page holds one entry per          *)
(* requested item, a finished splitQuery has issued exactly ceil(n/p)      *)
(* requests (also when n is a multiple of p).                              *)
(***************************************************************************)
C1_CeilRequests ==
  (sqPc = "done" /\ sqAllFull /\ sqSkipCount >= 1 /\ Len(sqList) >= 1)
    => Len(sqRequests) = CeilDiv(Len(sqList), sqSkipCount)

(***************************************************************************)
(* What the claims about the daily series speak of.                        *)
(***************************************************************************)
\* the timestamp of the account's earliest snapshot
EarliestTimestamp(h) ==
  CHOOSE t \in {h[i].timestamp : i \in 1..Len(h)} : \A i \in 1..Len(h) : t <= h[i].timestamp

\* the day bucket of a timestamp: floor(t / 86400) * 86400
DayBucket(t) == (t \div DAY) * DAY

\* the records of a pool in the answer of the day-data query
RecordsOf(pool) == {lcPairDayDatas[i] : i \in {j \in 1..Len(lcPairDayDatas) : lcPairDayDatas[j].pairAddress = pool}}

\* what the pool at position i of the ownership map adds to valueUSD in iteration k
Contribution(k, i) ==
  IF lcUsedLog[k][i] = NoRecord THEN ParseFloat(0)
  ELSE PairUSD(lcOwnLog[k][i].lpTokenBalance, lcUsedLog[k][i])

\* the snapshots of a pool that fall inside one of the buckets 1..k
AppliedUpTo(k, pool) ==
  {i \in 1..Len(lcHistory) :
     /\ lcHistory[i].pair = pool
     /\ \E j \in 1..k : /\ lcHistory[i].timestamp > lcFormatted[j].date
                        /\ lcHistory[i].timestamp < lcFormatted[j].date + DAY}

\* the sum of the fractions f[i], i in S, computed on a common denominator
RECURSIVE SumFractions(_, _)
SumFractions(f, S) ==
  IF S = {} THEN <<0, 1>>
  ELSE LET i == CHOOSE x \in S : TRUE
           r == SumFractions(f, S \ {i})
       IN  Norm(f[i][1] * r[2] + r[1] * f[i][2], f[i][2] * r[2])

(***************************************************************************)
(* C2: the first day bucket emitted is the day bucket of the earlier of    *)
(* the window start and the earliest snapshot's timestamp.                 *)
(***************************************************************************)
C2_StartsAtEarlier ==
  (lcPc \in {"await", "done"} /\ lcDayTimestamps # <<>>)
    => lcDayTimestamps[1] = DayBucket(Min2(lcStart, EarliestTimestamp(lcHistory)))

C3_FirstListed(pool) == DayDatasForThisPair(lcPairDayDatas, pool)[1]

C4_WrittenAtMostOnce ==
  [][\A k \in HookKinds, a \in Accounts, p \in Pools :
       SlotValue(state', k, a, p) # SlotValue(state, k, a, p)
         => SlotValue(state, k, a, p) = 0]_vars

\* the key the fetch numbered id was started for
C4_IsKeyOf(fs, id, k, a, p) ==
  /\ fs[id].kind = k
  /\ fs[id].account = a
  /\ k = "positionChart" => fs[id].pair = p

(***************************************************************************)
(* C4 as amended: a fetch is started only by a render that sees its key    *)
(* unset, and the cache changes only in the last step of a fetch, which    *)
(* writes that fetch's payload to the key it was started for and to no     *)
(* other: a key is written once by every fetch for it that completes, so   *)
(* again by each fetch that was started before the first write.            *)
(***************************************************************************)
C4_OneWritePerFetch ==
  [][/\ \A i \in (Len(fetches) + 1)..Len(fetches') :
          SlotValue(state, fetches'[i].kind, fetches'[i].account, fetches'[i].pair) = 0
     /\ state' # state =>
          \E id \in 1..Len(fetches) :
            /\ fetches[id].pc \in {"query", "returns"}
            /\ fetches'[id].pc = "done"
            /\ \A a \in Accounts :
                 state'[a].MINING_POSITIONS_KEY = state[a].MINING_POSITIONS_KEY
            /\ \A k \in HookKinds, a \in Accounts, p \in Pools :
                 SlotValue(state', k, a, p) # SlotValue(state, k, a, p)
                   => C4_IsKeyOf(fetches, id, k, a, p) /\ SlotValue(state', k, a, p) = id]_vars

\* two fetches of one account's snapshots have both completed: the key was
\* written twice, and holds the payload of one of them
C4_Witness ==
  \E i, j \in 1..Len(fetches) :
    /\ i < j
    /\ fetches[i].kind = "snapshots" /\ fetches[j].kind = "snapshots"
    /\ fetches[i].account = fetches[j].account
    /\ fetches[i].pc = "done" /\ fetches[j].pc = "done"
    /\ state[fetches[i].account].USER_SNAPSHOTS \in {i, j}

(***************************************************************************)
(* C5: a failure of the query a fetch operation awaits is caught inside    *)
(* that operation; no fetch operation ends in an uncaught error (here: the *)
(* day-data fetch of useUserLiquidityChart).                               *)
(***************************************************************************)
C5_NoUncaughtError == lcPc # "uncaught"

\* the three kinds of fetch whose fetchData has a try/catch
C6_Kinds == {"transactions", "snapshots", "positions"}

(***************************************************************************)
(* C6: a fetch of transactions, snapshots or positions changes the cache   *)
(* in no step but the one that completes it: the step in which it fails    *)
(* and every step that leaves it unfinished (a full page of snapshots, the *)
(* positions query before the returns) leave the cache as it is, and a     *)
(* value held under one of these keys is always the payload of a completed *)
(* fetch for that key: nothing partial is written.                         *)
(***************************************************************************)
C6_FailedFetchWritesNothing ==
  [][/\ \A id \in 1..Len(fetches) :
          (/\ fetches[id].kind \in C6_Kinds
           /\ fetches'[id] # fetches[id]
           /\ fetches'[id].pc # "done") => state' = state
     /\ \A k \in C6_Kinds, a \in Accounts :
          LET v == SlotValue(state', k, a, "")
          IN  v # 0 => /\ v \in 1..Len(fetches')
                       /\ fetches'[v].kind = k
                       /\ fetches'[v].account = a
                       /\ fetches'[v].pc = "done"]_vars

\* a fetch of snapshots failed on a later page, after a full first page, and
\* the snapshots of its account are unset
C6_Witness ==
  \E id \in 1..Len(fetches) :
    /\ fetches[id].kind = "snapshots"
    /\ fetches[id].pc = "failed"
    /\ fetches[id].pages >= 1
    /\ state[fetches[id].account].USER_SNAPSHOTS = 0

\* the fetch numbered id (transactions or snapshots) has failed, the consumer
\* that started it has rendered again since with the same account, and the key
\* is still unset
C7_FailedAndRenderedAgain(id) ==
  /\ fetches[id].kind \in {"transactions", "snapshots"}
  /\ fetches[id].pc = "failed"
  /\ fetches[id].rerendered
  /\ cons[fetches[id].by].account = fetches[id].account
  /\ SlotValue(state, fetches[id].kind, fetches[id].account, fetches[id].pair) = 0

\* the same consumer has started a later fetch for the same key
C7_Retried(id) ==
  \E j \in (id + 1)..Len(fetches) :
    /\ fetches[j].kind = fetches[id].kind
    /\ fetches[j].account = fetches[id].account
    /\ fetches[j].by = fetches[id].by

C8_NeverToday ==
  lcPc = "done" =>
    \A k \in 1..Len(lcFormatted) :
      /\ lcFormatted[k].date % DAY = 0
      /\ lcFormatted[k].date < (clock \div DAY) * DAY
      /\ k > 1 => lcFormatted[k].date = lcFormatted[k - 1].date + DAY

C8_Witness ==
  /\ lcPc = "done"
  /\ Len(lcFormatted) >= 2
  /\ lcFormatted[Len(lcFormatted)].date = (clock \div DAY) * DAY - DAY

(***************************************************************************)
(* C9: after bucket k the balance held for a pool is that of the pool's    *)
(* latest-by-timestamp snapshot among those applied in buckets 1..k,       *)
(* whatever their order in the input; a pool without a snapshot in bucket  *)
(* k keeps its entry, and a pool with none applied so far has no entry.    *)
(***************************************************************************)
C9_LatestBalanceKept ==
  lcPc = "done" =>
    \A k \in 1..Len(lcOwnLog) : \A pool \in Pools :
      LET applied == AppliedUpTo(k, pool)
      IN  IF applied = {}
          THEN ~HasPair(lcOwnLog[k], pool)
          ELSE /\ HasPair(lcOwnLog[k], pool)
               /\ \A i \in applied :
                    lcHistory[i].timestamp <= EntryOf(lcOwnLog[k], pool).timestamp
               /\ \E i \in applied :
                    /\ lcHistory[i].timestamp = EntryOf(lcOwnLog[k], pool).timestamp
                    /\ lcHistory[i].liquidityTokenBalance =
                         EntryOf(lcOwnLog[k], pool).lpTokenBalance

\* two snapshots of one pool in the first bucket, the later one first in the
\* input, and none of that pool in the second bucket
C9_Witness ==
  /\ lcPc = "done"
  /\ Len(lcOwnLog) >= 2
  /\ \E i, j \in 1..Len(lcHistory) :
       /\ i < j
       /\ lcHistory[i].pair = lcHistory[j].pair
       /\ lcHistory[i].timestamp > lcHistory[j].timestamp
       /\ {i, j} \subseteq AppliedUpTo(1, lcHistory[i].pair)
       /\ AppliedUpTo(2, lcHistory[i].pair) = AppliedUpTo(1, lcHistory[i].pair)
       /\ EntryOf(lcOwnLog[2], lcHistory[i].pair).lpTokenBalance =
            lcHistory[i].liquidityTokenBalance

(***************************************************************************)
(* C10: valueUSD of every emitted bucket is the sum, over the pools with a *)
(* known balance and a selected record, of                                 *)
(* (lpTokenBalance / totalSupply) * reserveUSD; for snapshots              *)
(* [{t=100, A, 10}, {t=200, A, 15}] and day-data [{date 0, A, 100, 1000}]   *)
(* the bucket covering t=200 has valueUSD 150.                             *)
(***************************************************************************)
C10_Example ==
  /\ lcHistory = << [timestamp |-> 100, pair |-> "A", liquidityTokenBalance |-> 10],
                    [timestamp |-> 200, pair |-> "A", liquidityTokenBalance |-> 15] >>
  /\ lcPairDayDatas = << [date |-> 0, pairAddress |-> "A", totalSupply |-> 100, reserveUSD |-> 1000] >>
  /\ lcStart < 100

C10_ValueIsSum ==
  lcPc = "done" =>
    /\ \A k \in 1..Len(lcFormatted) :
         LET valued == {i \in 1..Len(lcOwnLog[k]) : lcUsedLog[k][i] # NoRecord}
             share == [i \in valued |->
                         <<lcOwnLog[k][i].lpTokenBalance * lcUsedLog[k][i].reserveUSD,
                           lcUsedLog[k][i].totalSupply>>]
         IN  lcFormatted[k].valueUSD = SumFractions(share, valued)
    /\ C10_Example =>
         \E k \in 1..Len(lcFormatted) :
           /\ lcFormatted[k].date = DayBucket(200)
           /\ lcFormatted[k].valueUSD = <<150, 1>>

\* the example of the claim: the bucket of day 0 is emitted with valueUSD 150
C10_Witness ==
  /\ lcPc = "done"
  /\ C10_Example
  /\ \E k \in 1..Len(lcFormatted) :
       lcFormatted[k].date = 0 /\ lcFormatted[k].valueUSD = <<150, 1>>


(***************************************************************************)
(* C11: in every non-empty series returned by getShareValueOverTime the    *)
(* first sample has roiUsd exactly 1 and every later sample i has roiUsd   *)
(* sharePriceUsd[i] / sharePriceUsd[0].                                    *)
(***************************************************************************)
C11_RoiRelativeToFirst ==
  (svPc = "done" /\ svValues # <<>>) =>
    /\ svValues[1].roiUsd = <<1, 1>>
    /\ \A i \in 2..Len(svValues) :
         svValues[i].roiUsd = FDiv(svValues[i].sharePriceUsd, svValues[1].sharePriceUsd)

\* a series of three samples whose last differs from the one before it
C11_Witness ==
  /\ svPc = "done"
  /\ Len(svValues) = 3
  /\ svValues[3].roiUsd # <<1, 1>>
  /\ svValues[2].sharePriceUsd # svValues[1].sharePriceUsd
  /\ svValues[3].roiUsd[2] # 0

\* a number that is neither Infinity nor NaN
C12_Finite(x) == x[2] # 0

(***************************************************************************)
(* C12: no emitted sharePriceUsd or roiUsd is the result of a division by  *)
(* zero: each is a defined (finite) value, also when a sample's            *)
(* totalSupply is 0 or the first sample's sharePriceUsd is 0.              *)
(***************************************************************************)
C12_NoDivisionByZero ==
  \A i \in 1..Len(svValues) :
    C12_Finite(svValues[i].sharePriceUsd) /\ C12_Finite(svValues[i].roiUsd)


(***************************************************************************)
(* C13: getBlocksFromTimestamps returns its blocks in ascending order of   *)
(* block number, whatever the order of the input timestamps.               *)
(***************************************************************************)
C13_AscendingBlockNumbers ==
  bkPc = "done" =>
    \A i, j \in 1..Len(bkBlocks) : i < j => bkBlocks[i].number <= bkBlocks[j].number

\* the timestamps splitQuery got an answer for and the backend has a block for
C14_Resolved == {t \in Range(sqFetched) : t \notin bkMissing}

(***************************************************************************)
(* C14: the output has exactly one entry for each distinct input timestamp *)
(* the backend returned at least one block for, labelled with that         *)
(* timestamp and carrying the number of the first returned block; a        *)
(* timestamp without a block yields no entry and no error, and the output  *)
(* never has more entries than the input.                                  *)
(***************************************************************************)
C14_OneEntryPerResolvedTimestamp ==
  /\ (bkPc = "await" /\ sqPc = "done") => ENABLED BkReturn
  /\ bkPc = "done" =>
       /\ {bkBlocks[i].timestamp : i \in 1..Len(bkBlocks)} = C14_Resolved
       /\ \A i, j \in 1..Len(bkBlocks) :
            i # j => bkBlocks[i].timestamp # bkBlocks[j].timestamp
       /\ \A i \in 1..Len(bkBlocks) :
            bkBlocks[i].number = BlockNumberAt(bkBlocks[i].timestamp)
       /\ Len(bkBlocks) <= Len(sqList)

\* a timestamp given twice and a timestamp without a block: one entry, not three
C14_Witness ==
  /\ bkPc = "done"
  /\ Len(sqList) = 3
  /\ sqList[1] = sqList[2]
  /\ sqList[3] \in bkMissing
  /\ sqList[3] \in Range(sqFetched)
  /\ Len(bkBlocks) = 1


\* the list indices (0-based) the request numbered i sent
C15_Indices(i) == sqRequests[i][1]..(sqRequests[i][2] - 1)

(***************************************************************************)
(* C15: for a page size p >= 1 the slices of successive requests are       *)
(* consecutive windows of the list starting at index 0: no index is sent   *)
(* in two requests, and when no page is short every index is sent in       *)
(* exactly one request.                                                    *)
(***************************************************************************)
C15_ConsecutiveWindows ==
  sqSkipCount >= 1 =>
    /\ Len(sqRequests) >= 1 => sqRequests[1][1] = 0
    /\ \A i \in 1..Len(sqRequests) : sqRequests[i][1] <= sqRequests[i][2]
    /\ \A i \in 1..(Len(sqRequests) - 1) : sqRequests[i + 1][1] = sqRequests[i][2]
    /\ \A i, j \in 1..Len(sqRequests) : i # j => C15_Indices(i) \cap C15_Indices(j) = {}
    /\ (sqPc = "done" /\ sqAllFull) =>
         \A x \in 0..(Len(sqList) - 1) :
           Cardinality({i \in 1..Len(sqRequests) : x \in C15_Indices(i)}) = 1

\* a finished call that sent a list of three items in two or more full pages
C15_Witness ==
  /\ sqPc = "done"
  /\ sqAllFull
  /\ sqSkipCount \in 1..2
  /\ Len(sqList) = 3
  /\ Len(sqRequests) >= 2

(***************************************************************************)
(* C16: for every page size, 0 included, every list and every behaviour of *)
(* the backend, a call of splitQuery terminates: it returns or throws      *)
(* after finitely many requests.                                           *)
(***************************************************************************)
C16_Terminates == <>(sqPc \in {"done", "failed"})


\* the step completes the fetch numbered id
C17_Completes(id) == fetches[id].pc # "done" /\ fetches'[id].pc = "done"

(***************************************************************************)
(* C17: a snapshots fetch requests the offsets 0, 1000, 2000, ... in that  *)
(* order, each once, with one request outstanding at a time; after the     *)
(* first page of fewer than 1000 records it requests nothing more and      *)
(* writes the cache once, the value being the pages in request order;      *)
(* before that it writes nothing.                                          *)
(***************************************************************************)
C17_PagesInOrderOneWrite ==
  [][\A id \in 1..Len(fetches') :
       fetches'[id].kind = "snapshots" =>
         LET f == fetches'[id]
         IN  /\ f.requested = [i \in 1..Len(f.requested) |-> (i - 1) * PAGE_SIZE]
             /\ f.allResults = SubSeq(f.requested, 1, Len(f.allResults))
             /\ f.pc = "query" => Len(f.requested) = Len(f.allResults) + 1
             /\ f.pc = "done" => f.allResults = f.requested
             /\ id <= Len(fetches) =>
                  /\ fetches[id].pc = "done" => f = fetches[id]
                  /\ (f # fetches[id] /\ ~C17_Completes(id)) => state' = state
                  /\ C17_Completes(id) => state' = updateUserSnapshots(state, f.account, id)]_vars

\* a fetch that got a full page and then a short one, and has written
C17_Witness ==
  \E id \in 1..Len(fetches) :
    /\ fetches[id].kind = "snapshots"
    /\ fetches[id].pc = "done"
    /\ fetches[id].allResults = <<0, PAGE_SIZE>>
    /\ state[fetches[id].account].USER_SNAPSHOTS = id

(***************************************************************************)
(* C18: useUserPositionChart starts the pair-return computation only when  *)
(* the snapshot history filtered to the pool is non-empty (and the pool    *)
(* data and the price are present): none is started while the filtered     *)
(* list is empty.                                                          *)
(***************************************************************************)
C18_NoComputationOnEmptyList ==
  [][\A i \in (Len(fetches) + 1)..Len(fetches') :
       fetches'[i].kind = "positionChart" =>
         PairSnapshots(fetches'[i].account, fetches'[i].pair) # <<>>]_vars

\* the cached series of an (account, pool) pair
C19_Cached(st, a, p) == st[a].USER_PAIR_RETURNS_KEY[p]

(***************************************************************************)
(* C19: once a pair-returns result is cached for an (account, pool) pair,  *)
(* no other computation is started for the pair and the cached value stays *)
(* as it is.                                                               *)
(***************************************************************************)
C19_CachedForGood ==
  [][\A a \in Accounts, p \in Pools :
       C19_Cached(state, a, p) # 0 =>
         /\ C19_Cached(state', a, p) = C19_Cached(state, a, p)
         /\ \A i \in (Len(fetches) + 1)..Len(fetches') :
              ~(fetches'[i].kind = "positionChart" /\ fetches'[i].account = a
                /\ fetches'[i].pair = p)]_vars

(***************************************************************************)
(* C19 as amended: once a result is cached for an (account, pool) pair no  *)
(* computation is started for the pair, whatever the price, the snapshots  *)
(* or the pool data of the render; the cached value is replaced only by    *)
(* the result of a computation for the pair that was already under way.    *)
(***************************************************************************)
C19_NoNewComputationOnceCached ==
  [][\A a \in Accounts, p \in Pools :
       C19_Cached(state, a, p) # 0 =>
         /\ \A i \in (Len(fetches) + 1)..Len(fetches') :
              ~(fetches'[i].kind = "positionChart" /\ fetches'[i].account = a
                /\ fetches'[i].pair = p)
         /\ C19_Cached(state', a, p) # C19_Cached(state, a, p) =>
              LET w == C19_Cached(state', a, p)
              IN  /\ w \in 1..Len(fetches)
                  /\ fetches[w].kind = "positionChart"
                  /\ fetches[w].account = a /\ fetches[w].pair = p
                  /\ fetches[w].pc = "returns"]_vars

\* two computations for one pair were started before the first result was
\* cached; both have completed and none was started since
C19_Witness ==
  \E i, j \in 1..Len(fetches) :
    /\ i < j /\ j = Len(fetches)
    /\ fetches[i].kind = "positionChart" /\ fetches[j].kind = "positionChart"
    /\ fetches[i].account = fetches[j].account /\ fetches[i].pair = fetches[j].pair
    /\ fetches[i].pc = "done" /\ fetches[j].pc = "done"
    /\ C19_Cached(state, fetches[i].account, fetches[i].pair) \in {i, j}


(***************************************************************************)
(* C20: once startDateTimestamp of useUserLiquidityChart is set, no        *)
(* timeframe change and no re-render, the clock moving forward, increases  *)
(* it: it moves earlier or stays.                                          *)
(***************************************************************************)
C20_StartNeverIncreases ==
  [][lcStart # 0 => (lcStart' # 0 /\ lcStart' <= lcStart)]_vars

\* the effect has run for a timeframe whose start is later than the start
\* already set, and the earlier start was kept
C20_Witness ==
  /\ twLast # <<>>
  /\ twLast[1].startDateTimestamp # 0
  /\ twLast[1].startTime > twLast[1].startDateTimestamp
  /\ lcStart = twLast[1].startDateTimestamp

(***************************************************************************)
(* C24: in useUserLiquidityChart every snapshot whose day bucket is one of *)
(* the emitted buckets is applied to the running balance map while that    *)
(* bucket is processed, a snapshot dated exactly at the start of the       *)
(* bucket included.                                                        *)
(***************************************************************************)
C24_SnapshotOfBucketApplied ==
  lcPc = "done" =>
    \A k \in 1..Len(lcFormatted), i \in 1..Len(lcHistory) :
      DayBucket(lcHistory[i].timestamp) = lcFormatted[k].date =>
        /\ HasPair(lcOwnLog[k], lcHistory[i].pair)
        /\ EntryOf(lcOwnLog[k], lcHistory[i].pair).timestamp >= lcHistory[i].timestamp

C22_Value(arg) == IF arg = <<>> THEN 0 ELSE arg[1]

\* getPercentChange has returned
C22_Returned == fnResult # <<>> /\ fnCall[1].name = "getPercentChange"

(***************************************************************************)
(* C22: getPercentChange(now, prev) returns (now - prev) / prev * 100 when *)
(* prev is not 0, and 0 whenever prev is 0 or one of the two arguments is  *)
(* missing.                                                                *)
(***************************************************************************)
C22_PercentOrZeroWhenMissing ==
  C22_Returned =>
    LET now  == fnCall[1].args[1]
        prev == fnCall[1].args[2]
    IN  fnResult[1] =
          IF now = <<>> \/ prev = <<>> \/ C22_Value(prev) = 0
          THEN <<0, 1>>
          ELSE SNorm((now[1] - prev[1]) * 100, prev[1])

(***************************************************************************)
(* C22 as amended: a missing argument is taken as 0; the function returns  *)
(* (now - prev) / prev * 100 when prev is not 0 (so -100 when only now is  *)
(* missing), and 0 when prev is 0 or missing.                              *)
(***************************************************************************)
C22_PercentWithMissingAsZero ==
  C22_Returned =>
    LET now  == C22_Value(fnCall[1].args[1])
        prev == C22_Value(fnCall[1].args[2])
    IN  fnResult[1] = IF prev = 0 THEN <<0, 1>> ELSE SNorm((now - prev) * 100, prev)

\* getPercentChange(undefined, 100) has returned -100
C22_Witness ==
  /\ C22_Returned
  /\ fnCall[1].args = <<<<>>, <<100>>>>
  /\ fnResult[1] = <<-100, 1>>

(***************************************************************************)
(* C23: get2DayPercentChange(v0, v24, v48) returns                         *)
(* [v0 - v24, ((v0 - v24) - (v24 - v48)) / (v24 - v48) * 100], the second  *)
(* component being 0 when v24 - v48 is 0; (300, 200, 100) gives [100, 0].  *)
(***************************************************************************)
C23_TwoDayChange ==
  (fnResult # <<>> /\ fnCall[1].name = "get2DayPercentChange") =>
    LET v0  == fnCall[1].args[1][1]
        v24 == C22_Value(fnCall[1].args[2])
        v48 == C22_Value(fnCall[1].args[3])
    IN  /\ fnResult[1][1] = <<v0 - v24, 1>>
        /\ fnResult[1][2] =
             IF v24 - v48 = 0 THEN <<0, 1>>
             ELSE SNorm(((v0 - v24) - (v24 - v48)) * 100, v24 - v48)
        /\ fnCall[1].args = <<<<300>>, <<200>>, <<100>>>>
             => fnResult[1] = <<<<100, 1>>, <<0, 1>>>>

\* get2DayPercentChange('300', '200', '100') has returned [100, 0]
C23_Witness ==
  /\ fnResult # <<>>
  /\ fnCall[1].name = "get2DayPercentChange"
  /\ fnCall[1].args = <<<<300>>, <<200>>, <<100>>>>
  /\ fnResult[1] = <<<<100, 1>>, <<0, 1>>>>

(***************************************************************************)
(* C21: when several fetches for one (account, key) complete in any order, *)
(* the value under the key is unset or the whole payload of one completed  *)
(* fetch for that key, the last that wrote: a write replaces what was      *)
(* there, it never keeps or mixes in the payload of an earlier fetch.      *)
(***************************************************************************)
C21_WholePayloadOfLastWriter ==
  [][\A id \in 1..Len(fetches) :
       (fetches[id].pc # "done" /\ fetches'[id].pc = "done") =>
         LET f == fetches[id]
             before == SlotValue(state, f.kind, f.account, f.pair)
             after == SlotValue(state', f.kind, f.account, f.pair)
         IN  /\ f.kind \in {"snapshots", "positionChart"} => after = id
             /\ after \in {id, before}
             /\ after # 0 => (after \in 1..Len(fetches) /\ fetches'[after].pc = "done"
                              /\ fetches[after].kind = f.kind)]_vars

\* two fetches of one pair-returns entry have completed, the later started
\* first, and the entry holds the payload of the one that completed last
C21_Witness ==
  \E i, j \in 1..Len(fetches) :
    /\ i < j
    /\ fetches[i].kind = "positionChart" /\ fetches[j].kind = "positionChart"
    /\ fetches[i].account = fetches[j].account /\ fetches[i].pair = fetches[j].pair
    /\ fetches[i].pc = "done" /\ fetches[j].pc = "done"
    /\ state[fetches[i].account].USER_PAIR_RETURNS_KEY[fetches[i].pair] = i

\* the key of an account's entry an action writes, and the data it carries
C25_KeyOf(action) ==
  CASE action.type = "UPDATE_TRANSACTIONS" -> "TRANSACTIONS_KEY"
    [] action.type = "UPDATE_POSITIONS" -> "POSITIONS_KEY"
    [] action.type = "UPDATE_MINING_POSITIONS" -> "MINING_POSITIONS_KEY"
    [] action.type = "UPDATE_USER_POSITION_HISTORY" -> "USER_SNAPSHOTS"
    [] action.type = "UPDATE_USER_PAIR_RETURNS" -> "USER_PAIR_RETURNS_KEY"

(***************************************************************************)
(* C25: a reducer update for account A and one key leaves unchanged every  *)
(* other account's entry, every other key of A and, for pair returns,      *)
(* every other pairAddress entry of A.                                     *)
(***************************************************************************)
C25_FrameOfUpdate ==
  [][rdDispatched' # rdDispatched =>
       LET action == rdDispatched'[Len(rdDispatched')]
           a == action.payload.account
       IN  /\ \A b \in Accounts \ {a} : state'[b] = state[b]
           /\ \A key \in (DOMAIN EmptyEntry) \ {C25_KeyOf(action)} :
                state'[a][key] = state[a][key]
           /\ action.type = "UPDATE_USER_PAIR_RETURNS" =>
                \A p \in Pools \ {action.payload.pairAddress} :
                  state'[a].USER_PAIR_RETURNS_KEY[p] = state[a].USER_PAIR_RETURNS_KEY[p]]_vars

\* the pair returns of pool B of an account were written after those of pool A
\* and after the other account's transactions, which are still there
C25_Witness ==
  /\ rdDispatched # <<>>
  /\ rdDispatched[Len(rdDispatched)].type = "UPDATE_USER_PAIR_RETURNS"
  /\ rdDispatched[Len(rdDispatched)].payload.account = "a1"
  /\ rdDispatched[Len(rdDispatched)].payload.pairAddress = "B"
  /\ state["a1"].USER_PAIR_RETURNS_KEY["B"] # 0
  /\ state["a1"].USER_PAIR_RETURNS_KEY["A"] # 0
  /\ state["a2"].TRANSACTIONS_KEY # 0

(***************************************************************************)
(* C27: in useUserLiquidityChart, when the inputs change while an earlier  *)
(* computation awaits its day-data query, then once every computation      *)
(* started has completed the stored series is the one computed from the    *)
(* latest inputs, whatever order the queries resolve in.                   *)
(***************************************************************************)
C27_LatestInputsWin ==
  (rcRuns # <<>> /\ \A i \in 1..Len(rcRuns) : rcRuns[i].pc = "done")
    => lcFormatted = rcRuns[Len(rcRuns)].result

=============================================================================
